---- MODULE Spec2Model ----
(***************************************************************************)
(* A model of the TipsterHeroes.AI football-analysis application.          *)
(*                                                                         *)
(* Three Streamlit entry points share one shape of session:                *)
(*   "app"  : src/app.py                                                   *)
(*   "copy" : the older application appended to src/agents.py (538-1324)   *)
(*   "mem"  : src/agent_chat_with_memory.py                                *)
(* One step of the model is one run of the script from top to bottom,      *)
(* started by one user event (a button, a chat question) or by st.rerun(). *)
(* Strings are sequences of tokens, so an f-string is a concatenation.     *)
(* What an external service returns (completion service, search, storage,  *)
(* vector memory) is an input of the step, drawn from a small set; that a  *)
(* call to it raises is one of the outcomes.                               *)
(***************************************************************************)
EXTENDS Integers, Sequences, FiniteSets, TLC

VARIABLES
    entry,          \* which script serves the session
    connected,      \* supabase_client is not None (init_supabase succeeded)
    ss,             \* st.session_state
    blog_analyses,  \* the rows of the blog_analyses table, in insertion order
    memory,         \* the records written to the vector memory (memory.add)
    log,            \* the calls made for the analysis the session is showing
    offered,        \* the widgets the last script run rendered
    rerun,          \* st.rerun() was called: a script run is pending
    page,           \* how the last script run ended
    requests,       \* the analysis requests the session has made
    invoked,        \* a function called on its own: its name and arguments
    returned        \* what that call returned, once it has returned

vars == <<entry, connected, ss, blog_analyses, memory, log, offered, rerun, page, requests,
          invoked, returned>>

\* ------------------------------------------------------------------ bounds
MaxTurns == 1       \* chat questions asked about one analysis
MaxStored == 1      \* rows the blog_analyses table can hold
MaxMemories == 1    \* records the vector memory can hold
MaxRequests == 2    \* analysis requests made in one session

\* ------------------------------------------------------------------ values
Entries == {"app", "copy", "generate_analysis", "mem"}
Questions == {<<"q1">>}                 \* what a user can ask
UserIds == {"default_user", "alice"}    \* the sidebar's username field
ChatMethods == {"Direct Agent", "Embedchain", "Memory-Enhanced"}
Teams == {"A", "B"}
Leagues == {"L1"}
Dates == {"d1"}
MatchQueries == [home : {"A"}, away : {"B"}, league : Leagues, date : Dates]

\* A key of st.session_state (or a Python name) is missing, None, or set.
Absent == [st |-> "missing", v |-> <<>>]
NoneV == [st |-> "none", v |-> <<>>]
Some(x) == [st |-> "set", v |-> x]
IsSet(o) == o.st = "set"
HasKey(o) == o.st # "missing"           \* "key" in st.session_state

\* Python dicts: functions over the keys present.
EmptyDict == <<>>
Put(d, k, x) == [y \in (DOMAIN d) \cup {k} |-> IF y = k THEN x ELSE d[y]]
Update(d, e) == [y \in (DOMAIN d) \cup (DOMAIN e) |-> IF y \in DOMAIN e THEN e[y] ELSE d[y]]
Get(d, k, default) == IF k \in DOMAIN d THEN d[k] ELSE default
Truthy(t) == DOMAIN t # {}              \* a non-empty str, list or dict

\* Whether text t contains text p as a contiguous part.
Contains(t, p) ==
    \E i \in 0..(Len(t) - Len(p)) : SubSeq(t, i + 1, i + Len(p)) = p

Turn(role, content) == [role |-> role, content |-> content]


\* ------------------------------------------------- src/data_service.py
NoId == "None"
\* The teams table: team_name -> team_id; a name it does not hold gives None.
get_team_id_by_name(team_name) ==
    CASE team_name = "A" -> "t1"
      [] team_name = "A FC" -> "t1"     \* the common_name of team A
      [] team_name = "B" -> "t2"
      [] OTHER -> NoId

Elem(tag, cls, text) == [tag |-> tag, cls |-> cls, text |-> text]

\* The four-way choice of format_content_for_wordpress (554-561).
main_analysis(results) ==
    IF "combined_analysis" \in DOMAIN results THEN results["combined_analysis"]
    ELSE IF "enhanced_analysis" \in DOMAIN results THEN results["enhanced_analysis"]
    ELSE IF "db_insights" \in DOMAIN results THEN results["db_insights"]
    ELSE Get(results, "initial_analysis", <<"Analysis not available.">>)

\* The document format_content_for_wordpress builds, as its elements in order.
format_content_for_wordpress(match_info, results) ==
    LET main == main_analysis(results)
        header == << Elem("style", "", <<"css">>),
                     Elem("h1", "", match_info.match \o <<"- Match Analysis">>),
                     Elem("p", "match-info", <<match_info.league, "|", match_info.date>>),
                     Elem("div", "match-banner", <<>>),
                     Elem("div", "team home-team", <<match_info.match[1]>>),
                     Elem("div", "vs", <<"VS">>),
                     Elem("div", "team away-team", <<match_info.match[3]>>) >>
        intro == << Elem("p", "intro", <<"intro">>), Elem("div", "divider", <<>>) >>
        sections == << Elem("h2", "", <<"Match Analysis">>), Elem("p", "", main) >>
        stats == IF "db_insights" \in DOMAIN results /\ results["db_insights"] # main
                 THEN << Elem("h2", "", <<"Statistical Insights">>),
                         Elem("p", "", results["db_insights"]) >>
                 ELSE <<>>
        conclusion == << Elem("div", "divider", <<>>),
                         Elem("h2", "", <<"Conclusion">>),
                         Elem("p", "", <<"conclusion: betting decisions">>),
                         Elem("p", "disclaimer", <<"Disclaimer: Betting involves risk">>) >>
    IN header \o intro \o sections \o stats \o conclusion

SkippedClasses == {"match-banner", "divider", "disclaimer"}
ParsedTags == {"h1", "h2", "p", "div"}

\* parse_wordpress_analysis: the text of every h1, h2, p and div that is not
\* empty and not of a skipped class, in document order; style is dropped.
RECURSIVE ParseFrom(_, _)
ParseFrom(html, i) ==
    IF i > Len(html) THEN <<>>
    ELSE LET e == html[i]
             keep == /\ e.tag \in ParsedTags
                     /\ e.text # <<>>
                     /\ e.cls \notin SkippedClasses
         IN (IF keep THEN e.text ELSE <<>>) \o ParseFrom(html, i + 1)

parse_wordpress_analysis(html_content) == ParseFrom(html_content, 1)

\* Tokens in which the word "betting" is followed by more text.
BettingTokens == {"b", "conclusion: betting decisions"}
HasBettingSection(text) == \E i \in 1..Len(text) : text[i] \in BettingTokens

\* extract_betting_insights: {} when the regex finds no betting section, else
\* {"section": str, "recommendations": list}.
extract_betting_insights(analysis_content) ==
    IF HasBettingSection(analysis_content)
    THEN [k \in {"section", "recommendations"} |-> <<"betting text">>]
    ELSE EmptyDict

\* The rows check_analysis_exists's query matches (684-695).
MatchingRows(blog, home_team, away_team, match_date) ==
    { i \in 1..Len(blog) :
        /\ get_team_id_by_name(home_team) # NoId
        /\ get_team_id_by_name(away_team) # NoId
        /\ blog[i].home_team_id = get_team_id_by_name(home_team)
        /\ blog[i].away_team_id = get_team_id_by_name(away_team)
        /\ blog[i].match_date = match_date }

\* check_analysis_exists: (exists, id); .limit(1) returns any matching row
\* (pick); a failed query is caught and gives (False, None).
check_analysis_exists(blog, home_team, away_team, match_date, query_ok, pick) ==
    LET rows == MatchingRows(blog, home_team, away_team, match_date)
    IN IF query_ok /\ rows # {} /\ pick \in rows
       THEN [exists |-> TRUE, id |-> pick]
       ELSE [exists |-> FALSE, id |-> 0]

\* The row save_analysis_for_wordpress inserts (515-530).
AnalysisRow(match_info, results) ==
    [ home_team_id |-> get_team_id_by_name(match_info.match[1]),
      away_team_id |-> get_team_id_by_name(match_info.match[3]),
      league |-> match_info.league,
      match_date |-> match_info.date,
      content |-> format_content_for_wordpress(match_info, results) ]

save_analysis_for_wordpress(blog, match_info, results, insert_ok) ==
    IF insert_ok THEN Append(blog, AnalysisRow(match_info, results)) ELSE blog

\* add_analysis_message appends to chat_history (and to analysis_chat).
add_analysis_message(s, content) ==
    [s EXCEPT !.chat_history = Append(@, Turn("assistant", content)),
              !.analysis_chat = Append(@, Turn("assistant", content))]

\* setup_chat_with_context (734-766): clears the chat, builds the context.
ContextOfSetup(results, full_query) ==
    LET analysis_for_context ==
            IF "combined_analysis" \in DOMAIN results
            THEN results["combined_analysis"]
            ELSE Get(results, "enhanced_analysis", <<>>)
    IN <<"MATCH:">> \o full_query \o <<"ANALYSIS:">> \o analysis_for_context
       \o (IF "db_insights" \in DOMAIN results
           THEN <<"DATABASE INSIGHTS:">> \o results["db_insights"]
           ELSE <<>>)

setup_chat_with_context(s, results, full_query, chat_method, api_key) ==
    [s EXCEPT !.chat_history = <<>>,
              !.chat_bot = IF chat_method = "Embedchain" /\ api_key
                           THEN Some(ContextOfSetup(results, full_query)) ELSE @,
              !.chat_context = Some(ContextOfSetup(results, full_query))]


\* ------------------------------------------------------- src/agents.py
Ev(op, arg) == [op |-> op, arg |-> arg]

\* The assignment of st.session_state.chat_context, logged with the results
\* the context was built from.
BuildEv(results, context) ==
    [op |-> "chat_context", arg |-> Some(context), results |-> results]

\* The call of get_analysis_by_id, logged with what it returned: the record of
\* the match, or None when the row could not be read.
LoadEv(q, load_ok) ==
    Ev("get_analysis_by_id", IF load_ok THEN Some(<<q.home, q.away, q.date>>) ELSE NoneV)

\* The four completion calls of process_football_news, in the order made.
NewsStages == <<"search", "synthesize", "summarize", "elaborate">>
StageIndex(stage) == CHOOSE i \in 1..Len(NewsStages) : NewsStages[i] = stage

\* What each completion call of process_football_news returns, and the
\* message it is given (305-349).
StageOutput(stage, enhanced) ==
    CASE stage = "search" -> <<"raw">>
      [] stage = "synthesize" -> <<"syn">>
      [] stage = "summarize" -> <<"ini">>
      [] OTHER -> enhanced
StageInput(stage, match_details, enhanced) ==
    CASE stage = "search" -> <<"Find recent news about">> \o match_details
      [] stage = "synthesize" ->
            <<"Synthesize these football news articles:">> \o StageOutput("search", enhanced)
      [] stage = "summarize" ->
            <<"Summarize this football synthesis for betting context:">>
            \o StageOutput("synthesize", enhanced)
      [] OTHER ->
            <<"MATCH:">> \o match_details \o <<"Latest News:">> \o StageOutput("search", enhanced)
            \o <<"INITIAL ANALYSIS:">> \o StageOutput("summarize", enhanced)

\* A pipeline that makes the call that raised a second time.
process_football_news_retrying(match_details, fail, enhanced) ==
    LET raised == fail \in {NewsStages[i] : i \in 1..Len(NewsStages)}
        last == IF raised THEN StageIndex(fail) ELSE Len(NewsStages)
        calls == [i \in 1..last |->
                    Ev(NewsStages[i], Some(StageInput(NewsStages[i], match_details, enhanced)))]
    IN [ raised |-> raised,
         calls |-> IF raised THEN Append(calls, calls[last])
                   ELSE Append(calls, Ev("search_news", Some(match_details))),
         value |-> IF raised THEN EmptyDict
                   ELSE [k \in {"raw_news", "scraped_content", "synthesized_news",
                                "initial_analysis", "enhanced_analysis"} |->
                           CASE k = "raw_news" -> StageOutput("search", enhanced)
                             [] k = "scraped_content" -> <<"scraped">>
                             [] k = "synthesized_news" -> StageOutput("synthesize", enhanced)
                             [] k = "initial_analysis" -> StageOutput("summarize", enhanced)
                             [] OTHER -> StageOutput("elaborate", enhanced)] ]

\* process_football_news (300-371): the four calls, none inside a try, then
\* the scrape; a call that raises ends the function with nothing returned.
process_football_news(match_details, fail, enhanced) ==
    LET raised == fail \in {NewsStages[i] : i \in 1..Len(NewsStages)}
        last == IF raised THEN StageIndex(fail) ELSE Len(NewsStages)
        calls == [i \in 1..last |->
                    Ev(NewsStages[i], Some(StageInput(NewsStages[i], match_details, enhanced)))]
    IN [ raised |-> raised,
         calls |-> IF raised THEN calls
                   ELSE Append(calls, Ev("search_news", Some(match_details))),
         value |-> IF raised THEN EmptyDict
                   ELSE [k \in {"raw_news", "scraped_content", "synthesized_news",
                                "initial_analysis", "enhanced_analysis"} |->
                           CASE k = "raw_news" -> StageOutput("search", enhanced)
                             [] k = "scraped_content" -> <<"scraped">>
                             [] k = "synthesized_news" -> StageOutput("synthesize", enhanced)
                             [] k = "initial_analysis" -> StageOutput("summarize", enhanced)
                             [] OTHER -> StageOutput("elaborate", enhanced)] ]

\* chat_with_analysis(query, analysis_context, scraped_content, chat_history)
\* (463): whether a call site's arguments bind to this signature.
ChatParams == {"query", "analysis_context", "scraped_content", "chat_history"}
Binds(positional, keywords) ==
    /\ keywords \subseteq ChatParams
    /\ Cardinality(keywords) + positional = Cardinality(ChatParams)

\* ---------------------------------------------------------- src/app.py
FullQuery(q) == <<q.home, "vs", q.away, q.league, q.date>>
MatchInfo(q) == [match |-> <<q.home, "vs", q.away>>, league |-> q.league, date |-> q.date]

\* What the storage and the services answer during one analysis request.
\* "settings": app.py reads use_database at line 167, in a function called at
\* line 294, while the sidebar binds the name at line 354; whether the name is
\* bound depends on the namespace the script runs in, so the NameError is one
\* outcome beside the others.
Fails == {"none", "settings", "db_insights", "search", "synthesize",
          "summarize", "elaborate", "combine"}
Outcomes ==
    { o \in [ use_news : BOOLEAN, use_database : BOOLEAN, fail : Fails,
              betting : BOOLEAN, insert_ok : BOOLEAN ] :
        /\ (o.fail # "none") => (~o.betting /\ o.insert_ok)
        /\ (o.fail = "settings") => (o.use_news /\ o.use_database)
        /\ (o.fail = "db_insights") => o.use_database
        /\ (o.fail \in {"search", "synthesize", "summarize", "elaborate"}) => o.use_news
        /\ (o.fail = "combine") => (o.use_news /\ o.use_database) }
Outcome0 == [use_news |-> TRUE, use_database |-> TRUE, fail |-> "none",
             betting |-> FALSE, insert_ok |-> TRUE]

\* What a completion call returns: a text of its own, which may or may not
\* hold a betting section.
Completion(stage, betting) == <<stage>> \o (IF betting THEN <<"b">> ELSE <<>>)
Lookups == [query_ok : BOOLEAN, pick : 1..MaxStored, load_ok : BOOLEAN]
Lookup0 == [query_ok |-> TRUE, pick |-> 1, load_ok |-> TRUE]

\* The state one script run threads through its blocks.
Machine(s, blog, mem, calls) ==
    [ss |-> s, blog |-> blog, mem |-> mem, log |-> calls, stop |-> "no", offered |-> {}]

\* The except clause of generate_analysis_conversational (262-267).
AppExcept(m, calls) ==
    [m EXCEPT !.ss = add_analysis_message(
                        [m.ss EXCEPT !.analysis_in_progress = FALSE],
                        <<"An error occurred while generating the analysis:", "exc">>),
              !.log = m.log \o calls \o <<Ev("st.error", Some(<<"exc">>))>>]

\* The cache-hit branch (141-155).
AppLoaded(m, q, row, calls) ==
    LET parsed_content == parse_wordpress_analysis(row.content)
        results == [k \in {"source_type", "combined_analysis", "original_html",
                           "betting_insights"} |->
                      CASE k = "source_type" -> <<"db">>
                        [] k = "combined_analysis" -> parsed_content
                        [] k = "original_html" -> row.content
                        [] OTHER -> extract_betting_insights(parsed_content)]
    IN [m EXCEPT !.ss = add_analysis_message(
                            [m.ss EXCEPT !.results = Some(results),
                                         !.match_info = Some(MatchInfo(q)),
                                         !.analysis_in_progress = FALSE],
                            <<"Analysis loaded successfully for", q.home, "vs", q.away>>),
                 !.log = m.log \o calls]


\* The statistics block (167-198): its lookups, then the completion call.
AppStatsCalls(q) ==
    << Ev("get_match_with_bets", Some(<<q.home, q.away>>)),
       Ev("get_team_stats", Some(<<q.home>>)),
       Ev("get_team_stats", Some(<<q.away>>)),
       Ev("get_league_standings", Some(<<q.league>>)),
       Ev("process_database_insights", Some(<<q.home, q.away>>)) >>

\* Lines 209-232: what the run puts in results once its stages returned.
\* db_insights and news_results are None (NoneV) when their stage did not run.
AppCombine(results, db_insights, news_results, combined) ==
    LET has_db == IsSet(db_insights) /\ Truthy(db_insights.v)
        has_news == IsSet(news_results) /\ Truthy(news_results.v)
        r == IF has_db /\ has_news
             THEN Put(results, "combined_analysis", combined)
             ELSE IF has_db
             THEN Update(results,
                    [k \in {"combined_analysis", "enhanced_analysis", "initial_analysis",
                            "synthesized_news", "raw_news"} |->
                       CASE k \in {"combined_analysis", "enhanced_analysis"} -> db_insights.v
                         [] k = "initial_analysis" -> <<"Analysis based on database statistics only.">>
                         [] k = "synthesized_news" -> <<"No news analysis performed.">>
                         [] OTHER -> <<"No news search performed.">>])
             ELSE IF has_news
             THEN Put(results, "combined_analysis",
                      Get(news_results.v, "enhanced_analysis",
                          Get(news_results.v, "initial_analysis", <<"No analysis generated.">>)))
             ELSE results
    IN Put(r, "betting_insights",
           IF "combined_analysis" \in DOMAIN r
           THEN extract_betting_insights(r["combined_analysis"])
           ELSE IF "db_insights" \in DOMAIN r
           THEN extract_betting_insights(r["db_insights"])
           ELSE EmptyDict)

\* Lines 245-253: the chat context of a generated analysis.
AppAnalysisForContext(results) ==
    Get(results, "combined_analysis",
        Get(results, "enhanced_analysis", Get(results, "db_insights", <<>>)))

AppAddsDatabaseSection(results) ==
    "db_insights" \in DOMAIN results /\ "combined_analysis" \notin DOMAIN results

AppChatContext(results, full_query) ==
    <<"MATCH:">> \o full_query \o <<"ANALYSIS:">> \o AppAnalysisForContext(results)
    \o (IF AppAddsDatabaseSection(results)
        THEN <<"DATABASE INSIGHTS:">> \o results["db_insights"]
        ELSE <<>>)

\* The cache-miss branch (158-258).
\* A run that stores whatever it produced.
AppStoresAlways(client, db_insights, news_results) == TRUE

\* Line 239: the results are stored when the client is connected and
\* db_insights or news_results is truthy.
AppStores(client, db_insights, news_results) ==
    /\ client
    /\ \/ IsSet(db_insights) /\ Truthy(db_insights.v)
       \/ IsSet(news_results) /\ Truthy(news_results.v)

AppMiss(m, q, o, calls) ==
    LET s0 == [m.ss EXCEPT !.analysis_in_progress = TRUE]
        m0 == [m EXCEPT !.ss = s0]
        run_db == o.use_database /\ connected
        c1 == calls \o (IF run_db THEN AppStatsCalls(q) ELSE <<>>)
        db == Completion("db_insights", o.betting)
        db_insights == IF run_db THEN Some(db) ELSE NoneV
        r1 == IF run_db THEN Put(EmptyDict, "db_insights", db) ELSE EmptyDict
        news == process_football_news(FullQuery(q), o.fail, Completion("enhanced", o.betting))
        c2 == c1 \o (IF o.use_news THEN news.calls ELSE <<>>)
        news_results == IF o.use_news THEN Some(news.value) ELSE NoneV
        r2 == IF o.use_news THEN Update(r1, news.value) ELSE r1
        both == run_db /\ Truthy(db) /\ o.use_news
        c3 == c2 \o (IF both THEN <<Ev("combine_analysis_with_database", Some(db))>> ELSE <<>>)
        results == AppCombine(r2, db_insights, news_results, Completion("combined", o.betting))
        store == AppStores(connected, db_insights, news_results)
        c4 == c3 \o (IF store THEN <<Ev("save_analysis_for_wordpress", Some(main_analysis(results)))>>
                     ELSE <<>>)
        ctx == AppChatContext(results, FullQuery(q))
    IN IF o.fail = "settings" THEN AppExcept(m0, calls)
       ELSE IF run_db /\ o.fail = "db_insights" THEN AppExcept(m0, c1)
       ELSE IF o.use_news /\ news.raised THEN AppExcept(m0, c2)
       ELSE IF both /\ o.fail = "combine" THEN AppExcept(m0, c3)
       ELSE [m EXCEPT
               !.ss = add_analysis_message(
                        [s0 EXCEPT !.results = Some(results),
                                   !.match_info = Some(MatchInfo(q)),
                                   !.chat_context = Some(ctx),
                                   !.analysis_in_progress = FALSE],
                        <<"Analysis generated successfully for", q.home, "vs", q.away>>),
               !.blog = IF store
                        THEN save_analysis_for_wordpress(m.blog, MatchInfo(q), results, o.insert_ok)
                        ELSE m.blog,
               !.log = m.log \o c4 \o <<BuildEv(results, ctx)>>]

\* Line 158: the pipeline runs when no stored analysis was loaded.
RunsPipelineWhateverWasLoaded(existing_analysis_loaded) == TRUE
RunsPipeline(existing_analysis_loaded) == ~existing_analysis_loaded

\* The function with its lookup moved behind the pipeline.
app_generate_then_lookup(m, mt, look, o) ==
    LET ran == AppMiss(m, mt.q, o, <<>>)
    IN [ran EXCEPT !.log = @ \o <<Ev("check_analysis_exists",
                                     Some(<<mt.q.home, mt.q.away, mt.q.date>>))>>]

\* generate_analysis_conversational of app.py (125-267).  A match that came
\* from the URL carries its date as a str, so line 132 raises.
app_generate_analysis_conversational(m, mt, look, o) ==
    LET q == mt.q
        found == IF connected
                 THEN check_analysis_exists(m.blog, q.home, q.away, q.date,
                                            look.query_ok, look.pick)
                 ELSE [exists |-> FALSE, id |-> 0]
        c1 == IF connected THEN <<Ev("check_analysis_exists", Some(<<q.home, q.away, q.date>>))>>
              ELSE <<>>
        c2 == c1 \o (IF found.exists THEN <<LoadEv(q, look.load_ok)>>
                     ELSE <<>>)
        existing_analysis_loaded == found.exists /\ look.load_ok
        looked == IF existing_analysis_loaded THEN AppLoaded(m, q, m.blog[found.id], c2)
                  ELSE [m EXCEPT !.log = m.log \o c2]
    IN IF mt.src = "url" THEN AppExcept(m, <<>>)
       ELSE IF RunsPipeline(existing_analysis_loaded) THEN AppMiss(looked, q, o, <<>>)
       ELSE looked


\* How a block leaves the run: the script goes on, an uncaught exception
\* ends it, or st.rerun() ends it and schedules the next one.
Crash(m) == [m EXCEPT !.stop = "crash"]
Rerun(m) == [m EXCEPT !.stop = "rerun"]
Offer(m, widget) == [m EXCEPT !.offered = @ \cup {widget}]

\* The analysis execution block (273-299).
AppExecFires(s) ==
    s.start_analysis /\ HasKey(s.match_to_analyze) /\ ~s.analysis_in_progress

\* An execution block that leaves the flag as it found it.
KeepStartAnalysis(s) == s

\* Line 279: the flag is cleared before the analysis starts.
ClearStartAnalysis(s) == [s EXCEPT !.start_analysis = FALSE]

AppExecBlock(m, look, o) ==
    IF ~AppExecFires(m.ss) THEN m
    ELSE IF ~IsSet(m.ss.match_to_analyze) THEN Crash(m)
    ELSE LET mt == m.ss.match_to_analyze.v
             s1 == [ClearStartAnalysis(m.ss) EXCEPT
                                !.chat_history = <<>>,
                                !.analysis_in_progress = TRUE,
                                !.analysis_chat = <<>>,
                                !.results = NoneV,
                                !.match_info = NoneV]
             m1 == [m EXCEPT !.ss = s1, !.log = <<>>]
         IN IF ~mt.keys THEN Crash(m1)
            ELSE app_generate_analysis_conversational(m1, mt, look, o)

\* The match row a URL's match_id resolves to (get_match_by_id, 74-102): its
\* match_date is a str, and whether it has the keys "league" and
\* "match_date" depends on the matches table.
UrlQuery == [home |-> "A", away |-> "B", league |-> "L1", date |-> "d1"]
UrlMatch(keys) == [q |-> UrlQuery, src |-> "url", keys |-> keys]
FormMatch(q) == [q |-> q, src |-> "form", keys |-> TRUE]

\* The URL parameter block (311-335).
AppUrlBlock(m, found, keys) ==
    IF m.stop # "no" THEN m
    ELSE IF ~(connected /\ m.ss.url_match_id /\ ~m.ss.url_params_processed) THEN m
    ELSE LET s1 == [m.ss EXCEPT !.url_params_processed = TRUE]
         IN IF ~found THEN [m EXCEPT !.ss = s1]
            ELSE LET s2 == [s1 EXCEPT !.match_from_url = Some(UrlMatch(keys))]
                 IN IF s2.url_auto_analyze /\ ~s2.analysis_triggered
                    THEN Rerun([m EXCEPT !.ss =
                            [s2 EXCEPT !.match_to_analyze = s2.match_from_url,
                                       !.in_analysis_mode = TRUE,
                                       !.start_analysis = TRUE,
                                       !.analysis_triggered = TRUE]])
                    ELSE [m EXCEPT !.ss = s2]

\* The handler without its lines 482-483: the conversation is kept.
SelectDifferentMatchKeepingChat(s) ==
    [s EXCEPT !.in_analysis_mode = FALSE,
              !.from_url_analysis = FALSE,
              !.analysis_in_progress = FALSE,
              !.start_analysis = FALSE,
              !.analysis_triggered = FALSE,
              !.match_to_analyze = NoneV,
              !.results = NoneV,
              !.match_info = NoneV,
              !.match_from_url = NoneV,
              !.url_params_processed = FALSE]

\* The handler of "Select Different Match" (471-487).
SelectDifferentMatch(s) ==
    [s EXCEPT !.in_analysis_mode = FALSE,
              !.from_url_analysis = FALSE,
              !.analysis_in_progress = FALSE,
              !.start_analysis = FALSE,
              !.analysis_triggered = FALSE,
              !.match_to_analyze = NoneV,
              !.results = NoneV,
              !.match_info = NoneV,
              !.chat_history = <<>>,
              !.chat_context = NoneV,
              !.match_from_url = NoneV,
              !.url_params_processed = FALSE]

\* The handlers of "Start Analysis" (584-597) and "Generate Analysis" (629-648).
RequestAnalysis(s, q) ==
    [s EXCEPT !.match_to_analyze = Some(FormMatch(q)),
              !.in_analysis_mode = TRUE,
              !.start_analysis = TRUE,
              !.analysis_triggered = TRUE]

\* The left column (447-652).
AppCol1(m, ev, q) ==
    IF m.stop # "no" THEN m
    ELSE IF m.ss.in_analysis_mode
    THEN IF HasKey(m.ss.match_info)
         THEN IF ~IsSet(m.ss.match_info) THEN Crash(m)
              ELSE IF m.ss.analysis_in_progress THEN m
              ELSE IF ev = "select_different"
              THEN Rerun([m EXCEPT !.ss = SelectDifferentMatch(m.ss), !.log = <<>>])
              ELSE Offer(m, "select_different")
         ELSE m
    ELSE IF connected /\ IsSet(m.ss.match_from_url) /\ ~m.ss.analysis_triggered
    THEN Crash(m)
    ELSE IF ev \in {"start_analysis", "generate"}
    THEN Rerun([m EXCEPT !.ss = RequestAnalysis(m.ss, q)])
    ELSE Offer(IF connected THEN Offer(m, "start_analysis") ELSE m, "generate")


\* The sidebar's settings as one run reads them (349-416).
Settings ==
    { c \in [ user_id : UserIds, chat_method : ChatMethods, api_key : BOOLEAN,
              enable_memory : BOOLEAN, init_ok : BOOLEAN, search_ok : BOOLEAN,
              add_ok : BOOLEAN ] :
        /\ (~c.api_key) => ~c.enable_memory
        /\ (~c.enable_memory) => (c.init_ok /\ c.search_ok /\ c.add_ok
                                   /\ c.user_id = "default_user")
        /\ (c.chat_method # "Memory-Enhanced") => (c.search_ok /\ c.add_ok) }
Settings0 == [user_id |-> "default_user", chat_method |-> "Direct Agent", api_key |-> TRUE,
              enable_memory |-> FALSE, init_ok |-> TRUE, search_ok |-> TRUE, add_ok |-> TRUE]

\* memory is not None after the sidebar (375-409).
AppMemory(c) == c.api_key /\ c.enable_memory /\ c.init_ok
\* chat_method after the sidebar's fallbacks (410-416).
AppChatMethod(c) ==
    IF c.api_key
    THEN IF ~c.enable_memory /\ c.chat_method = "Memory-Enhanced"
         THEN "Direct Agent" ELSE c.chat_method
    ELSE IF c.chat_method \in {"Embedchain", "Memory-Enhanced"}
         THEN "Direct Agent" ELSE c.chat_method

\* get_relevant_memories (data_service 148-175): the user's records; [] when
\* the search raises.
get_relevant_memories(mem, user_id, search_ok) ==
    IF search_ok THEN SelectSeq(mem, LAMBDA r : r.user_id = user_id) ELSE <<>>

\* save_chat_to_memory (data_service 125-146): memory.add, whoever the user is.
save_chat_to_memory(mem, user_id, query, response, add_ok) ==
    IF add_ok THEN Append(mem, [user_id |-> user_id, query |-> query, response |-> response])
    ELSE mem

\* The text the context argument of a chat call renders to.
Str(o) == IF IsSet(o) THEN o.v ELSE <<"None">>

\* The keyword arguments of app.py's two calls of agents.chat_with_analysis.
AppChatKeywords == {"scraped_content", "db_insights", "betting_insights", "chat_history"}
Answer == <<"answer">>

\* One call of agents.chat_with_analysis from app.py inside its try
\* (866-874, 893-901): evaluating the arguments reads results, binding them
\* to the signature can fail, and the completion call can fail.
AppChatCall(m, context, question, answer_ok) ==
    IF ~IsSet(m.ss.results)
    THEN [raised |-> TRUE, log |-> m.log]
    ELSE IF ~Binds(2, AppChatKeywords)
    THEN [raised |-> TRUE, log |-> Append(m.log, Ev("chat_with_analysis", Some(<<"TypeError">>)))]
    ELSE [raised |-> ~answer_ok,
          log |-> m.log \o <<Ev("chat_with_analysis", Some(context)),
                             Ev("client.run", Some(question))>>]

\* A chat history that keeps only its newest turn.
KeepLastTurn(history, role, content) == <<Turn(role, content)>>

\* st.session_state.chat_history.append({"role": ..., "content": ...}) (831, 916).
AppendTurn(history, role, content) == Append(history, Turn(role, content))

\* The chat handler (828-916).
AppAnswer(m, c, question, answer_ok) ==
    LET s1 == [m.ss EXCEPT !.chat_history = AppendTurn(@, "user", question)]
        method == AppChatMethod(c)
        reply(m2, response) ==
            [m2 EXCEPT !.ss = [m2.ss EXCEPT !.chat_history =
                                    AppendTurn(s1.chat_history, "assistant", response)]]
    IN IF method = "Embedchain" /\ IsSet(s1.chat_bot)
       THEN reply([m EXCEPT !.log = Append(@, Ev("chat_bot.chat", Some(question)))],
                  IF answer_ok THEN Answer ELSE <<"Error using Embedchain:", "exc">>)
       ELSE IF method = "Memory-Enhanced" /\ AppMemory(c) /\ HasKey(s1.chat_context)
       THEN LET relevant_memories == get_relevant_memories(m.mem, c.user_id, c.search_ok)
                m1 == [m EXCEPT !.log = Append(@, Ev("memory.search", Some(<<c.user_id>>)))]
                enhanced_context == Str(s1.chat_context) \o <<"MEMORY CONTEXT:">>
                call == AppChatCall(m1, enhanced_context, question, answer_ok)
            IN IF call.raised
               THEN reply([m1 EXCEPT !.log = call.log],
                          <<"Error using Memory-Enhanced chat:", "exc">>)
               ELSE IF AppMemory(c) /\ c.user_id # "default_user"
               THEN reply([m1 EXCEPT !.log = Append(call.log, Ev("memory.add", Some(<<c.user_id>>))),
                                     !.mem = save_chat_to_memory(m.mem, c.user_id, question,
                                                                 Answer, c.add_ok)],
                          Answer)
               ELSE reply([m1 EXCEPT !.log = call.log], Answer)
       ELSE IF method = "Direct Agent" /\ HasKey(s1.chat_context)
       THEN LET call == AppChatCall(m, Str(s1.chat_context), question, answer_ok)
            IN reply([m EXCEPT !.log = call.log],
                     IF call.raised THEN <<"Error using Direct Agent chat:", "exc">> ELSE Answer)
       ELSE reply(m, <<"Please generate an analysis first to start the chat.">>)

\* A Betting tab that renders whatever betting_insights holds.
BettingTabRenders(results) == FALSE

\* The Betting tab (706-757) reads every value of betting_insights with .get.
BettingTabRaises(results) ==
    /\ "betting_insights" \in DOMAIN results
    /\ Truthy(results["betting_insights"])

\* The chat questions asked since the current analysis request began.
Asked(calls) == Len(SelectSeq(calls, LAMBDA e : e.op = "st.chat_input"))

\* The right column (656-932).
AppCol2(m, ev, c, question, answer_ok) ==
    IF m.stop # "no" THEN m
    ELSE IF ~m.ss.in_analysis_mode THEN m
    ELSE IF HasKey(m.ss.match_info) /\ ~IsSet(m.ss.match_info) THEN Crash(m)
    ELSE IF /\ HasKey(m.ss.results) /\ ~m.ss.analysis_in_progress
            /\ (~IsSet(m.ss.results) \/ BettingTabRaises(m.ss.results.v))
    THEN Crash(m)
    ELSE LET m1 == IF m.ss.analysis_in_progress THEN m
                   ELSE IF ev = "chat"
                   THEN Offer(AppAnswer([m EXCEPT !.log = Append(@, Ev("st.chat_input", Some(question)))],
                                        c, question, answer_ok), "chat")
                   ELSE Offer(m, "chat")
         IN IF Len(m1.ss.chat_history) = 0 THEN m1
            ELSE IF ev = "clear_chat"
            THEN Rerun([m1 EXCEPT !.ss = [m1.ss EXCEPT !.chat_history = <<>>]])
            ELSE Offer(m1, "clear_chat")


\* The events that ask for an analysis.
RequestEvents == {"start_analysis", "generate", "start_chat"}

\* One run of app.py from top to bottom, started by the event ev.
AppScript(ev, q, c, question, answer_ok, look, o, found, keys) ==
    /\ entry = "app"
    /\ \E m1 \in {AppExecBlock(Machine(ss, blog_analyses, memory, log), look, o)} :
       \E m2 \in {AppUrlBlock(m1, found, keys)} :
       \E m3 \in {AppCol1(m2, ev, q)} :
       \E m4 \in {AppCol2(m3, ev, c, question, answer_ok)} :
          /\ Len(m4.blog) <= MaxStored
          /\ Len(m4.mem) <= MaxMemories
          /\ ss' = m4.ss
          /\ blog_analyses' = m4.blog
          /\ memory' = m4.mem
          /\ log' = m4.log
          /\ offered' = m4.offered
          /\ rerun' = (m4.stop = "rerun")
          /\ page' = IF m4.stop = "crash" THEN "crashed" ELSE "rendered"
    /\ requests' = IF ev \in RequestEvents THEN requests + 1 ELSE requests
    /\ UNCHANGED <<entry, connected, invoked, returned>>

\* The inputs a run can meet, fixed where the run does not read them.
StoredNow == connected /\ blog_analyses # <<>>
LookupsNow == IF AppExecFires(ss) /\ StoredNow THEN Lookups ELSE {Lookup0}
OutcomesNow == IF AppExecFires(ss) THEN Outcomes ELSE {Outcome0}
UrlNow == IF connected /\ ss.url_match_id /\ ~ss.url_params_processed
          THEN BOOLEAN \X BOOLEAN ELSE {<<TRUE, TRUE>>}

\* A run no widget started: the first load, st.rerun(), a sidebar change.
AppRerun ==
    \E look \in LookupsNow, o \in OutcomesNow, u \in UrlNow :
        AppScript("none", UrlQuery, Settings0, <<>>, TRUE, look, o, u[1], u[2])

AppEvent(ev, q, c, question, answer_ok) ==
    /\ ~rerun
    /\ ev \in offered
    /\ (ev \in RequestEvents) => requests < MaxRequests
    /\ \E u \in UrlNow :
         AppScript(ev, q, c, question, answer_ok, Lookup0, Outcome0, u[1], u[2])

AppSelectDifferentMatch == AppEvent("select_different", UrlQuery, Settings0, <<>>, TRUE)
AppStartAnalysis == \E q \in MatchQueries : AppEvent("start_analysis", q, Settings0, <<>>, TRUE)
AppGenerateAnalysis == \E q \in MatchQueries : AppEvent("generate", q, Settings0, <<>>, TRUE)
AppAsk ==
    /\ Asked(log) < MaxTurns
    /\ \E c \in Settings, question \in Questions, answer_ok \in BOOLEAN :
         AppEvent("chat", UrlQuery, c, question, answer_ok)
AppClearChat == AppEvent("clear_chat", UrlQuery, Settings0, <<>>, TRUE)

\* ----------------------------------- src/agents.py, 538-1324 ("app copy.py")
\* A stored document read as the str it is: its markup, tags included.
RECURSIVE Markup(_)
Markup(html) ==
    IF html = <<>> THEN <<>>
    ELSE <<"<", Head(html).tag, Head(html).cls, ">">> \o Head(html).text
         \o <<"</", Head(html).tag, ">">> \o Markup(Tail(html))

RECURSIVE SayAll(_, _)
SayAll(s, messages) ==
    IF messages = <<>> THEN s
    ELSE SayAll(add_analysis_message(s, <<Head(messages)>>), Tail(messages))

\* What both generate functions of the older application make of a stored
\* row (597-603, 789-795).
CopyLoadedResults(row) ==
    [k \in {"combined_analysis", "enhanced_analysis", "initial_analysis",
            "synthesized_news", "raw_news"} |->
       IF k \in {"combined_analysis", "enhanced_analysis"}
       THEN Markup(row.content) ELSE <<"Loaded from database">>]

\* Lines 670-682 and 900-916: what a run puts in results.
CopyCombine(results, run_news_analysis, run_db_analysis, db_insights, combined) ==
    LET has_db == IsSet(db_insights) /\ Truthy(db_insights.v)
    IN IF run_news_analysis /\ run_db_analysis /\ has_db
       THEN Put(Put(results, "combined_analysis", combined), "db_insights", db_insights.v)
       ELSE IF has_db
       THEN Update(results,
              [k \in {"db_insights", "enhanced_analysis", "initial_analysis",
                      "synthesized_news", "raw_news", "combined_analysis"} |->
                 CASE k \in {"db_insights", "enhanced_analysis", "combined_analysis"} -> db_insights.v
                   [] k = "initial_analysis" -> <<"Analysis based on database statistics only.">>
                   [] k = "synthesized_news" -> <<"No news analysis performed.">>
                   [] OTHER -> <<"No news search performed.">>])
       ELSE results

\* The statistics block of the older application (625-664, 828-889).
CopyStatsCalls(q) ==
    << Ev("get_match_by_teams", Some(<<q.home, q.away>>)),
       Ev("get_team_stats", Some(<<q.home>>)),
       Ev("get_team_stats", Some(<<q.away>>)),
       Ev("get_head_to_head", Some(<<q.home, q.away>>)),
       Ev("get_league_standings", Some(<<q.league>>)),
       Ev("process_database_insights", Some(<<q.home, q.away>>)) >>

\* The except clause of generate_analysis_conversational (940-945).
CopyExcept(m, s, calls) ==
    [m EXCEPT !.ss = [add_analysis_message(s, <<"I encountered an error while generating the analysis.">>)
                        EXCEPT !.analysis_in_progress = FALSE],
              !.log = m.log \o calls \o <<Ev("st.error", Some(<<"exc">>))>>]

\* generate_analysis_conversational of the older application (747-945).
\* The statistics tables hold no rows for the two teams.
copy_generate_analysis_conversational(m, q, look, o, c) ==
    LET early_context == <<"MATCH:", q.home, "vs", q.away, "LEAGUE:", q.league, "DATE:", q.date,
                           "ANALYSIS:", "Currently being generated.">>
        early == Put(EmptyDict, "initial_analysis", early_context)
        s0 == setup_chat_with_context(
                 add_analysis_message([m.ss EXCEPT !.analysis_in_progress = TRUE], <<"welcome">>),
                 early, FullQuery(q), c.chat_method, c.api_key)
        c0 == <<BuildEv(early, ContextOfSetup(early, FullQuery(q)))>>
        found == IF connected
                 THEN check_analysis_exists(m.blog, q.home, q.away, q.date, look.query_ok, look.pick)
                 ELSE [exists |-> FALSE, id |-> 0]
        s1 == SayAll(s0, IF ~connected THEN <<>>
                         ELSE <<"checking", IF found.exists THEN "already analyzed" ELSE "new analysis">>)
        c1 == c0 \o (IF connected THEN <<Ev("check_analysis_exists", Some(<<q.home, q.away, q.date>>))>>
                     ELSE <<>>)
              \o (IF found.exists THEN <<LoadEv(q, look.load_ok)>>
                  ELSE <<>>)
        run_db == o.use_database /\ connected
        s2 == SayAll(s1, IF run_db
                         THEN <<"statistics", "match history", "home form", "away form",
                                "head to head", "standings", "analyzing statistics">>
                         ELSE <<>>)
        c2 == c1 \o (IF run_db THEN CopyStatsCalls(q) ELSE <<>>)
        db == Completion("db_insights", o.betting)
        db_insights == IF run_db THEN Some(db) ELSE NoneV
        s3 == SayAll(s2, IF run_db THEN <<"statistics complete">> ELSE <<>>)
        news == process_football_news(FullQuery(q), o.fail, Completion("enhanced", o.betting))
        s4 == SayAll(s3, IF o.use_news THEN <<"searching news", "searching for">> ELSE <<>>)
        c3 == c2 \o (IF o.use_news THEN news.calls ELSE <<>>)
        r1 == IF o.use_news THEN news.value ELSE EmptyDict
        s5 == SayAll(s4, IF o.use_news THEN <<"found news">> ELSE <<>>)
        both == o.use_news /\ run_db /\ Truthy(db)
        s6 == SayAll(s5, IF both THEN <<"combining">> ELSE <<>>)
        c4 == c3 \o (IF both THEN <<Ev("combine_analysis_with_database", Some(db))>> ELSE <<>>)
        results == CopyCombine(r1, o.use_news, run_db, db_insights, Completion("combined", o.betting))
        s7 == SayAll(s6, IF both THEN <<"analysis complete">>
                         ELSE IF run_db THEN <<"statistics only">> ELSE <<>>)
        s8 == [s7 EXCEPT !.results = Some(results), !.match_info = Some(MatchInfo(q))]
        s9 == SayAll(s8, IF ~connected THEN <<>>
                         ELSE IF o.insert_ok THEN <<"saving", "saved">> ELSE <<"saving">>)
        c5 == c4 \o (IF connected THEN <<Ev("save_analysis_for_wordpress", Some(main_analysis(results)))>>
                     ELSE <<>>)
        s10 == setup_chat_with_context(
                  SayAll([s9 EXCEPT !.analysis_in_progress = FALSE], <<"explore the results">>),
                  results, FullQuery(q), c.chat_method, c.api_key)
    IN IF found.exists /\ look.load_ok
       THEN LET loaded == CopyLoadedResults(m.blog[found.id])
                t1 == SayAll(s1, <<"loaded">>)
                t2 == [t1 EXCEPT !.results = Some(loaded), !.match_info = Some(MatchInfo(q))]
                t3 == [SayAll(t2, <<"explore the results">>) EXCEPT !.analysis_in_progress = FALSE]
            IN [m EXCEPT !.ss = setup_chat_with_context(t3, loaded, FullQuery(q),
                                                        c.chat_method, c.api_key),
                         !.log = m.log \o c1
                                 \o <<BuildEv(loaded, ContextOfSetup(loaded, FullQuery(q)))>>]
       ELSE IF run_db /\ o.fail = "db_insights" THEN CopyExcept(m, s2, c2)
       ELSE IF o.use_news /\ news.raised THEN CopyExcept(m, s4, c3)
       ELSE IF both /\ o.fail = "combine" THEN CopyExcept(m, s6, c4)
       ELSE [m EXCEPT !.ss = s10,
                      !.blog = IF connected
                               THEN save_analysis_for_wordpress(m.blog, MatchInfo(q), results, o.insert_ok)
                               ELSE m.blog,
                      !.log = m.log \o c5
                              \o <<BuildEv(results, ContextOfSetup(results, FullQuery(q)))>>]

\* generate_analysis of the older application (581-745); its only call, at
\* line 1133, is commented out, so it runs when called on its own.
generate_analysis(m, q, look, o, c) ==
    LET found == IF connected
                 THEN check_analysis_exists(m.blog, q.home, q.away, q.date, look.query_ok, look.pick)
                 ELSE [exists |-> FALSE, id |-> 0]
        c1 == (IF connected THEN <<Ev("check_analysis_exists", Some(<<q.home, q.away, q.date>>))>>
               ELSE <<>>)
              \o (IF found.exists THEN <<LoadEv(q, look.load_ok)>>
                  ELSE <<>>)
        run_db == o.use_database /\ connected
        c2 == c1 \o (IF run_db THEN CopyStatsCalls(q) ELSE <<>>)
        db == Completion("db_insights", o.betting)
        db_insights == IF run_db THEN Some(db) ELSE NoneV
        news == process_football_news(FullQuery(q), o.fail, Completion("enhanced", o.betting))
        c3 == c2 \o (IF o.use_news THEN news.calls ELSE <<>>)
        r1 == IF o.use_news THEN news.value ELSE EmptyDict
        both == o.use_news /\ run_db /\ Truthy(db)
        c4 == c3 \o (IF both THEN <<Ev("combine_analysis_with_database", Some(db))>> ELSE <<>>)
        results == CopyCombine(r1, o.use_news, run_db, db_insights, Completion("combined", o.betting))
        c5 == c4 \o (IF connected THEN <<Ev("save_analysis_for_wordpress", Some(main_analysis(results)))>>
                     ELSE <<>>)
        embedchain == c.chat_method = "Embedchain" /\ c.api_key
        analysis_for_context == IF "combined_analysis" \in DOMAIN results
                                THEN results["combined_analysis"]
                                ELSE Get(results, "enhanced_analysis", <<>>)
        ctx == <<"MATCH:">> \o FullQuery(q) \o <<"ANALYSIS:">> \o analysis_for_context
               \o (IF embedchain /\ "db_insights" \in DOMAIN results
                   THEN <<"DATABASE INSIGHTS:">> \o results["db_insights"] ELSE <<>>)
        raise(calls) == [m EXCEPT !.log = m.log \o calls \o <<Ev("st.error", Some(<<"exc">>))>>]
    IN IF found.exists /\ look.load_ok
       THEN [m EXCEPT !.ss = [m.ss EXCEPT !.results = Some(CopyLoadedResults(m.blog[found.id])),
                                          !.match_info = Some(MatchInfo(q))],
                      !.log = m.log \o c1]
       ELSE IF run_db /\ o.fail = "db_insights" THEN raise(c2)
       ELSE IF o.use_news /\ news.raised THEN raise(c3)
       ELSE IF both /\ o.fail = "combine" THEN raise(c4)
       ELSE [m EXCEPT !.ss = [m.ss EXCEPT !.results = Some(results),
                                          !.match_info = Some(MatchInfo(q)),
                                          !.chat_history = <<>>,
                                          !.chat_bot = IF embedchain THEN Some(ctx) ELSE @,
                                          !.chat_context = Some(ctx)],
                      !.blog = IF connected
                               THEN save_analysis_for_wordpress(m.blog, MatchInfo(q), results, o.insert_ok)
                               ELSE m.blog,
                      !.log = m.log \o c5 \o <<BuildEv(results, ctx)>>]

\* The sidebar of the older application (948-1018): initialize_memory raises
\* when the vector store cannot be reached, outside any try.
CopySidebar(m, c) ==
    IF c.enable_memory /\ c.api_key /\ ~c.init_ok THEN Crash(m) ELSE m

\* The left column (1023-1144): "Start Chat" and "Generate Analysis".
CopyCol1(m, ev, q, look, o, c) ==
    IF m.stop # "no" THEN m
    ELSE LET m1 == Offer(IF connected THEN Offer(m, "start_chat") ELSE m, "generate")
         IN IF ev = "start_chat"
            THEN copy_generate_analysis_conversational(
                    [m1 EXCEPT !.ss = [m.ss EXCEPT !.chat_history = <<>>,
                                                   !.analysis_chat = <<>>,
                                                   !.first_load = Some(TRUE)],
                               !.log = <<>>], q, look, o, c)
            ELSE IF ev = "generate"
            THEN copy_generate_analysis_conversational(
                    [m1 EXCEPT !.ss = [m.ss EXCEPT !.analysis_chat = <<>>], !.log = <<>>],
                    q, look, o, c)
            ELSE m1

\* The three positional arguments of the older application's calls of
\* agents.chat_with_analysis (1290-1294, 1301-1305).
CopyChatPositional == 3

\* The chat handler of the older application (1262-1312); nothing in it is
\* inside a try.
CopyAnswer(m, c, question, answer_ok) ==
    LET s1 == [m.ss EXCEPT !.chat_history = Append(@, Turn("user", question))]
        m1 == [m EXCEPT !.ss = s1]
        reply(m2, response) ==
            [m2 EXCEPT !.ss = [m2.ss EXCEPT !.chat_history = Append(@, Turn("assistant", response))]]
        bound == Binds(CopyChatPositional, {})
        call(m2, context) ==
            IF ~bound
            THEN Crash([m2 EXCEPT !.log = Append(@, Ev("chat_with_analysis", Some(<<"TypeError">>)))])
            ELSE LET m3 == [m2 EXCEPT !.log = @ \o <<Ev("chat_with_analysis", Some(context)),
                                                     Ev("client.run", Some(question))>>]
                 IN IF answer_ok THEN m3 ELSE Crash(m3)
    IN IF c.chat_method = "Embedchain" /\ IsSet(s1.chat_bot)
       THEN LET m2 == [m1 EXCEPT !.log = Append(@, Ev("chat_bot.chat", Some(question)))]
            IN IF answer_ok THEN reply(m2, Answer) ELSE Crash(m2)
       ELSE IF c.chat_method = "Memory-Enhanced" /\ c.enable_memory /\ c.api_key
       THEN LET m2 == call([m1 EXCEPT !.log = Append(@, Ev("memory.search", Some(<<c.user_id>>)))],
                           Str(s1.chat_context) \o <<"MEMORY CONTEXT:">>)
            IN IF m2.stop = "crash" THEN m2
               ELSE reply([m2 EXCEPT !.log = Append(@, Ev("memory.add", Some(<<c.user_id>>))),
                                     !.mem = save_chat_to_memory(m.mem, c.user_id, question,
                                                                 Answer, c.add_ok)],
                          Answer)
       ELSE IF c.chat_method = "Direct Agent" /\ HasKey(s1.chat_context)
       THEN LET m2 == call(m1, Str(s1.chat_context))
            IN IF m2.stop = "crash" THEN m2 ELSE reply(m2, Answer)
       ELSE reply(m1, <<"Please generate an analysis first">>)

\* The right column (1147-1314).
CopyCol2(m, ev, c, question, answer_ok) ==
    IF m.stop # "no" THEN m
    ELSE IF ~(Truthy(m.ss.analysis_chat) /\ HasKey(m.ss.results) /\ HasKey(m.ss.match_info))
    THEN m
    ELSE IF ~IsSet(m.ss.match_info) \/ ~IsSet(m.ss.results) THEN Crash(m)
    ELSE IF ~IsSet(m.ss.first_load) \/ m.ss.first_load.v
    THEN Rerun([m EXCEPT !.ss = [m.ss EXCEPT !.first_load = Some(FALSE)]])
    ELSE IF ev = "chat"
    THEN Offer(CopyAnswer([m EXCEPT !.log = Append(@, Ev("st.chat_input", Some(question)))],
                          c, question, answer_ok), "chat")
    ELSE Offer(m, "chat")

\* The "Clear Chat History" button below the columns (1317-1320).
CopyClearChat(m, ev) ==
    IF m.stop # "no" THEN m
    ELSE IF Len(m.ss.chat_history) = 0 THEN m
    ELSE IF ev = "clear_chat"
    THEN Rerun([m EXCEPT !.ss = [m.ss EXCEPT !.chat_history = <<>>]])
    ELSE Offer(m, "clear_chat")

\* One run of the older application, started by the event ev.
CopyScript(ev, q, c, question, answer_ok, look, o) ==
    /\ entry = "copy"
    /\ \E m1 \in {CopySidebar(Machine(ss, blog_analyses, memory, log), c)} :
       \E m2 \in {CopyCol1(m1, ev, q, look, o, c)} :
       \E m3 \in {CopyCol2(m2, ev, c, question, answer_ok)} :
       \E m4 \in {CopyClearChat(m3, ev)} :
          /\ Len(m4.blog) <= MaxStored
          /\ Len(m4.mem) <= MaxMemories
          /\ ss' = m4.ss
          /\ blog_analyses' = m4.blog
          /\ memory' = m4.mem
          /\ log' = m4.log
          /\ offered' = m4.offered
          /\ rerun' = (m4.stop = "rerun")
          /\ page' = IF m4.stop = "crash" THEN "crashed" ELSE "rendered"
    /\ requests' = IF ev \in RequestEvents THEN requests + 1 ELSE requests
    /\ UNCHANGED <<entry, connected, invoked, returned>>

\* The sidebar as a run that answers no question reads it.
PlainSettings == {c \in Settings : c.search_ok /\ c.add_ok /\ c.user_id = "default_user"}
\* The sidebar as a run that makes an analysis reads it: only whether the
\* chat method is Embedchain with a key matters to it.
RequestSettings == {c \in PlainSettings : c.api_key /\ ~c.enable_memory
                                          /\ c.chat_method # "Memory-Enhanced"}

CopyRerun ==
    \E c \in PlainSettings :
        CopyScript("none", UrlQuery, c, <<>>, TRUE, Lookup0, Outcome0)

CopyRequest(ev) ==
    /\ ~rerun
    /\ ev \in offered
    /\ requests < MaxRequests
    /\ \E q \in MatchQueries, c \in RequestSettings, o \in Outcomes,
          look \in (IF StoredNow THEN Lookups ELSE {Lookup0}) :
         CopyScript(ev, q, c, <<>>, TRUE, look, o)

CopyStartChat == CopyRequest("start_chat")
CopyGenerateAnalysis == CopyRequest("generate")

CopyAsk ==
    /\ ~rerun
    /\ "chat" \in offered
    /\ Asked(log) < MaxTurns
    /\ \E c \in Settings, question \in Questions, answer_ok \in BOOLEAN :
         CopyScript("chat", UrlQuery, c, question, answer_ok, Lookup0, Outcome0)

CopyClear ==
    /\ ~rerun
    /\ "clear_chat" \in offered
    /\ \E c \in PlainSettings :
         CopyScript("clear_chat", UrlQuery, c, <<>>, TRUE, Lookup0, Outcome0)

\* generate_analysis called on its own, the sidebar's names bound.
DirectGenerateAnalysis ==
    /\ entry = "generate_analysis"
    /\ requests < MaxRequests
    /\ requests' = requests + 1
    /\ \E q \in MatchQueries, c \in RequestSettings, o \in Outcomes,
          look \in (IF StoredNow THEN Lookups ELSE {Lookup0}) :
       \E m1 \in {generate_analysis(Machine(ss, blog_analyses, memory, <<>>), q, look, o, c)} :
          /\ Len(m1.blog) <= MaxStored
          /\ ss' = m1.ss
          /\ blog_analyses' = m1.blog
          /\ log' = m1.log
    /\ UNCHANGED <<entry, connected, memory, offered, rerun, page, invoked, returned>>

\* --------------------------------------- src/agent_chat_with_memory.py
\* The handler of "Generate Analysis" (446-495).
MemGenerate(m, q, o, c) ==
    LET news == process_football_news(FullQuery(q), o.fail, Completion("enhanced", o.betting))
        results == news.value
        embedchain == c.chat_method = "Embedchain" /\ c.api_key
        ctx == <<"MATCH:">> \o FullQuery(q)
               \o <<"ENHANCED ANALYSIS:">> \o results["enhanced_analysis"]
               \o <<"INITIAL ANALYSIS:">> \o results["initial_analysis"]
               \o (IF embedchain THEN <<"SYNTHESIZED NEWS:">> \o results["synthesized_news"]
                   ELSE <<>>)
    IN IF news.raised
       THEN [m EXCEPT !.log = news.calls \o <<Ev("st.error", Some(<<"exc">>))>>]
       ELSE [m EXCEPT !.ss = [m.ss EXCEPT !.results = Some(results),
                                          !.match_info = Some(MatchInfo(q)),
                                          !.chat_history = <<>>,
                                          !.chat_bot = IF embedchain THEN Some(ctx) ELSE @,
                                          !.chat_context = Some(ctx)],
                      !.log = news.calls \o <<BuildEv(results, ctx)>>]

\* The chat handler (542-592); nothing in it is inside a try, the three
\* positional arguments of its calls bind to this script's chat_with_analysis
\* (query, analysis_context, chat_history=None; 280), and
\* get_relevant_memories (332-361) reads a name its failed search left unbound.
MemAnswer(m, c, question, answer_ok) ==
    LET s1 == [m.ss EXCEPT !.chat_history = Append(@, Turn("user", question))]
        m1 == [m EXCEPT !.ss = s1]
        reply(m2, response) ==
            [m2 EXCEPT !.ss = [m2.ss EXCEPT !.chat_history = Append(@, Turn("assistant", response))]]
        call(m2, context) ==
            LET m3 == [m2 EXCEPT !.log = @ \o <<Ev("chat_with_analysis", Some(context)),
                                                Ev("client.run", Some(question))>>]
            IN IF answer_ok THEN m3 ELSE Crash(m3)
    IN IF c.chat_method = "Embedchain" /\ IsSet(s1.chat_bot)
       THEN LET m2 == [m1 EXCEPT !.log = Append(@, Ev("chat_bot.chat", Some(question)))]
            IN IF answer_ok THEN reply(m2, Answer) ELSE Crash(m2)
       ELSE IF c.chat_method = "Memory-Enhanced" /\ c.enable_memory /\ c.api_key
       THEN LET m2 == [m1 EXCEPT !.log = Append(@, Ev("memory.search", Some(<<c.user_id>>)))]
                m3 == call(m2, Str(s1.chat_context) \o <<"MEMORY CONTEXT:">>)
            IN IF ~c.search_ok THEN Crash(m2)
               ELSE IF m3.stop = "crash" THEN m3
               ELSE reply([m3 EXCEPT !.log = Append(@, Ev("memory.add", Some(<<c.user_id>>))),
                                     !.mem = save_chat_to_memory(m.mem, c.user_id, question,
                                                                 Answer, c.add_ok)],
                          Answer)
       ELSE IF c.chat_method = "Direct Agent" /\ HasKey(s1.chat_context)
       THEN LET m2 == call(m1, Str(s1.chat_context))
            IN IF m2.stop = "crash" THEN m2 ELSE reply(m2, Answer)
       ELSE reply(m1, <<"Please generate an analysis first">>)

\* One run of agent_chat_with_memory.py (364-600).
MemScript(ev, q, c, question, answer_ok, o) ==
    /\ entry = "mem"
    /\ \E m1 \in {CopySidebar(Machine(ss, blog_analyses, memory, log), c)} :
       \E m2 \in {IF m1.stop # "no" THEN m1
                  ELSE IF ev = "generate" THEN MemGenerate(Offer(m1, "generate"), q, o, c)
                  ELSE Offer(m1, "generate")} :
       \E m3 \in {IF m2.stop # "no" \/ ~HasKey(m2.ss.results) THEN m2
                  ELSE IF ev = "chat"
                  THEN Offer(MemAnswer([m2 EXCEPT !.log = Append(@, Ev("st.chat_input", Some(question)))],
                                       c, question, answer_ok), "chat")
                  ELSE Offer(m2, "chat")} :
       \E m4 \in {CopyClearChat(m3, ev)} :
          /\ Len(m4.mem) <= MaxMemories
          /\ ss' = m4.ss
          /\ memory' = m4.mem
          /\ log' = m4.log
          /\ offered' = m4.offered
          /\ rerun' = (m4.stop = "rerun")
          /\ page' = IF m4.stop = "crash" THEN "crashed" ELSE "rendered"
    /\ requests' = IF ev \in RequestEvents THEN requests + 1 ELSE requests
    /\ UNCHANGED <<entry, connected, blog_analyses, invoked, returned>>

NewsOutcomes == {o \in Outcomes : o.use_news /\ o.use_database /\ o.insert_ok
                                  /\ o.fail \notin {"settings", "db_insights", "combine"}}

MemRerun ==
    \E c \in PlainSettings : MemScript("none", UrlQuery, c, <<>>, TRUE, Outcome0)
MemGenerateAnalysis ==
    /\ ~rerun
    /\ "generate" \in offered
    /\ requests < MaxRequests
    /\ \E q \in MatchQueries, c \in RequestSettings, o \in NewsOutcomes :
         MemScript("generate", q, c, <<>>, TRUE, o)
MemAsk ==
    /\ ~rerun
    /\ "chat" \in offered
    /\ Asked(log) < MaxTurns
    /\ \E c \in Settings, question \in Questions, answer_ok \in BOOLEAN :
         MemScript("chat", UrlQuery, c, question, answer_ok, Outcome0)
MemClear ==
    /\ ~rerun
    /\ "clear_chat" \in offered
    /\ \E c \in PlainSettings : MemScript("clear_chat", UrlQuery, c, <<>>, TRUE, Outcome0)

\* ------------------------------------------------------------- the system
\* st.session_state before the first run of the script.
Session0(url_match_id, url_auto_analyze) ==
    [ in_analysis_mode |-> FALSE, start_analysis |-> FALSE,
      analysis_in_progress |-> FALSE, analysis_triggered |-> FALSE,
      from_url_analysis |-> FALSE,
      url_match_id |-> url_match_id, url_auto_analyze |-> url_auto_analyze,
      url_params_processed |-> FALSE,
      match_to_analyze |-> Absent, results |-> Absent, match_info |-> Absent,
      chat_context |-> Absent, first_load |-> Absent,
      chat_bot |-> NoneV, match_from_url |-> NoneV,
      chat_history |-> <<>>, analysis_chat |-> <<>> ]

Init ==
    /\ entry \in Entries
    /\ connected \in BOOLEAN
    /\ (entry = "mem") => ~connected
    /\ \E id \in BOOLEAN, auto \in BOOLEAN :
         /\ (~id) => ~auto
         /\ (entry # "app") => ~id
         /\ ss = Session0(id, auto)
    /\ blog_analyses = <<>>
    /\ memory = <<>>
    /\ log = <<>>
    /\ offered = {}
    /\ rerun = TRUE
    /\ page = "none"
    /\ requests = 0
    /\ invoked = NoneV
    /\ returned = NoneV

Next ==
    \/ AppRerun
    \/ AppSelectDifferentMatch
    \/ AppStartAnalysis
    \/ AppGenerateAnalysis
    \/ AppAsk
    \/ AppClearChat
    \/ CopyRerun
    \/ CopyStartChat
    \/ CopyGenerateAnalysis
    \/ CopyAsk
    \/ CopyClear
    \/ DirectGenerateAnalysis
    \/ MemRerun
    \/ MemGenerateAnalysis
    \/ MemAsk
    \/ MemClear

Spec == Init /\ [][Next]_vars

\* ------------------------------------------- functions called on their own
\* What a function gives back: it returns a value or it raises.
Returns(value) == [raised |-> FALSE, value |-> value]
Raises(exception) == [raised |-> TRUE, value |-> <<exception>>]

\* The search backend (DDGS().text): the results it finds for a topic.
Topics == {"A vs B", "C vs D"}
SearchResult(n) == [title |-> <<"title", n>>, href |-> <<"url", n>>, body |-> <<"body", n>>]
SearchResults == {<<>>, <<SearchResult(1)>>, <<SearchResult(1), SearchResult(2)>>}

\* "\n\n".join of the results, each with the fields the function prints.
RECURSIVE JoinResults(_, _)
JoinResults(results, with_content) ==
    IF results = <<>> THEN <<>>
    ELSE <<"Title:">> \o Head(results).title \o <<"URL:">> \o Head(results).href
         \o <<"Summary:">> \o Head(results).body
         \o (IF with_content THEN <<"Content:", "scraped">> \o Head(results).href ELSE <<>>)
         \o JoinResults(Tail(results), with_content)

\* agents.search_news_original (24-41): with no results line 40 prints
\* news_results, a local name bound only inside `if results:`.
search_news_original(topic, results, search_ok) ==
    IF ~search_ok THEN Raises("DuckDuckGoSearchException")
    ELSE IF results # <<>> THEN Returns(JoinResults(results, FALSE))
    ELSE Raises("UnboundLocalError")

\* agents.search_news (114-153): everything inside one try.
search_news(topic, results, search_ok) ==
    IF ~search_ok
    THEN Returns(<<"An error occurred while searching for news on", topic,
                   "from the specified sites.">>)
    ELSE IF results # <<>> THEN Returns(JoinResults(results, TRUE))
    ELSE Returns(<<"No news found for", "'", topic, "football match", "'",
                   "on the specified sites today.">>)

\* news_agent.search_news (14-24).
news_agent_search_news(topic, results, search_ok) ==
    IF ~search_ok THEN Raises("DuckDuckGoSearchException")
    ELSE IF results # <<>> THEN Returns(JoinResults(results, FALSE))
    ELSE Returns(<<"No news found for", topic, ".">>)

SearchFns == {"search_news", "search_news_original", "news_agent.search_news"}
SearchCalls ==
    [fn : SearchFns, topic : Topics, results : SearchResults, search_ok : BOOLEAN]

\* The matches an analysis is stored and looked up for; "A FC" is the common
\* name of team A and "Z" is a team the teams table does not hold.
FnQueries == [home : {"A", "A FC", "Z"}, away : {"B"}, league : {"L1", "L2"}, date : {"d1", "d2"}]
FnResults ==
    { Put(EmptyDict, "combined_analysis", <<"c">>),
      Put(Put(EmptyDict, "enhanced_analysis", <<"e">>), "db_insights", <<"db">>),
      Put(EmptyDict, "db_insights", <<"db", "b">>),
      EmptyDict }

\* app.py 137: the lookup is given the teams and the date of the query, and
\* not its league.
AppCheckAnalysisExistsInLeague(blog, q, query_ok, pick) ==
    LET found == check_analysis_exists(blog, q.home, q.away, q.date, query_ok, pick)
    IN IF found.exists /\ blog[found.id].league = q.league
       THEN found ELSE [exists |-> FALSE, id |-> 0]
AppCheckAnalysisExists(blog, q, query_ok, pick) ==
    check_analysis_exists(blog, q.home, q.away, q.date, query_ok, pick)

\* get_analysis_by_id (703-712): the row of that id.
get_analysis_by_id(blog, analysis_id) == blog[analysis_id]

\* An analysis is stored for one match, then one match is looked up and what
\* is found is loaded.
StoreCalls ==
    [fn : {"check_analysis_exists"}, stored : FnQueries, results : FnResults,
     q : FnQueries, query_ok : BOOLEAN]

\* BeautifulSoup(text, 'html.parser') of a str that holds no markup: one text
\* node and no element.
Soup(text) == IF text = <<>> THEN <<>> ELSE <<Elem("[document]", "", text)>>

\* What parse_wordpress_analysis is given: a str without markup, or a document.
PlainTexts == {<<>>, <<"c">>, <<"c", "b">>}
ParseCalls ==
    {[fn |-> "parse_wordpress_analysis", markup |-> FALSE, text |-> t, html_content |-> Soup(t)] :
        t \in PlainTexts}
    \cup {[fn |-> "parse_wordpress_analysis", markup |-> TRUE, text |-> <<>>,
           html_content |-> format_content_for_wordpress(MatchInfo(q), r)] :
            q \in FnQueries, r \in FnResults}

\* parse_wordpress_analysis with its except clause (957, 985-987), given what
\* the content column of a record holds: a str, or None, of which
\* BeautifulSoup raises TypeError.
ParseStoredContentOrEmpty(content) ==
    IF IsSet(content) THEN Some(parse_wordpress_analysis(content.v)) ELSE Some(<<>>)
ParseStoredContent(content) ==
    IF IsSet(content) THEN Some(parse_wordpress_analysis(content.v)) ELSE content

\* extract_betting_insights with its except clause (1025-1027): re.search of
\* None raises TypeError.
ExtractStoredInsights(parsed_content) ==
    IF IsSet(parsed_content) THEN extract_betting_insights(parsed_content.v) ELSE EmptyDict

\* The cache-hit branch (139-155) for a record whose content may be None.
AppLoadRecord(s, q, content) ==
    LET parsed_content == ParseStoredContent(content)
        results == [k \in {"source_type", "combined_analysis", "original_html",
                           "betting_insights"} |->
                      CASE k = "source_type" -> Some(<<"db">>)
                        [] k = "combined_analysis" -> parsed_content
                        [] k = "original_html" -> content
                        [] OTHER -> Some(ExtractStoredInsights(parsed_content))]
    IN add_analysis_message(
           [s EXCEPT !.results = Some(results),
                     !.match_info = Some(MatchInfo(q)),
                     !.analysis_in_progress = FALSE],
           <<"Analysis loaded successfully for", q.home, "vs", q.away>>)

StoredContents ==
    {NoneV} \cup {Some(format_content_for_wordpress(MatchInfo(q), r)) :
                    q \in FnQueries, r \in FnResults}
LoadCalls == [fn : {"cache_load"}, q : FnQueries, content : StoredContents]

\* agents.chat_with_analysis (463-493): the messages handed to client.run.
agents_chat_with_analysis(query, analysis_context, scraped_content, chat_history) ==
    LET system_content ==
            <<"Use the following football match analysis as context:">> \o analysis_context
            \o (IF Truthy(scraped_content)
                THEN <<"Scraped Content from News Articles:", "Content:">> \o scraped_content
                     \o <<"---">>
                ELSE <<>>)
    IN <<Turn("system", system_content)>> \o chat_history \o <<Turn("user", query)>>

\* agent_chat_with_memory.chat_with_analysis (280-307).
memory_chat_with_analysis(query, analysis_context, chat_history) ==
    << Turn("system", <<"Use the following football match analysis as context for answering user questions:">>
                      \o analysis_context) >>
    \o chat_history \o <<Turn("user", query)>>

\* The caller appends the question to chat_history (app.py 831) and passes
\* chat_history[:-1] (app.py 900, agent_chat_with_memory.py 584).
PassedHistory(chat_history, chat_prompt) ==
    LET appended == Append(chat_history, Turn("user", chat_prompt))
    IN SubSeq(appended, 1, Len(appended) - 1)

\* The Direct Agent call of each script: app.py 893-901, agents.py 1301-1305,
\* agent_chat_with_memory.py 581-585.
DirectAgentCall(site, chat_prompt, chat_context, scraped_content, chat_history) ==
    CASE site = "app.py" ->
            IF Binds(2, AppChatKeywords)
            THEN Returns(agents_chat_with_analysis(chat_prompt, chat_context, scraped_content,
                                                   PassedHistory(chat_history, chat_prompt)))
            ELSE Raises("TypeError")
      [] site = "agents.py" ->
            IF Binds(CopyChatPositional, {})
            THEN Returns(agents_chat_with_analysis(chat_prompt, chat_context, scraped_content,
                                                   PassedHistory(chat_history, chat_prompt)))
            ELSE Raises("TypeError")
      [] OTHER ->
            Returns(memory_chat_with_analysis(chat_prompt, chat_context,
                                              PassedHistory(chat_history, chat_prompt)))

ChatSites == {"app.py", "agents.py", "agent_chat_with_memory.py"}
ChatHistories ==
    { <<>>,
      <<Turn("assistant", <<"Analysis generated">>)>>,
      <<Turn("user", <<"q0">>), Turn("assistant", Answer)>>,
      <<Turn("assistant", <<"Analysis generated">>), Turn("user", <<"q1">>),
        Turn("assistant", Answer)>> }
ChatCalls ==
    [fn : {"chat_with_analysis"}, site : ChatSites, chat_prompt : {<<"q1">>, <<"q2">>},
     chat_context : {<<"MATCH:", "ANALYSIS:", "c">>, <<"None">>},
     scraped_content : {<<>>, <<"scraped">>}, chat_history : ChatHistories]

\* A str by its name and its number of characters; text[:n].
Text(name, len) == [name |-> name, len |-> len]
Slice(text, n) == [text EXCEPT !.len = IF @ < n THEN @ ELSE n]

\* The number of memories a memory section takes, the characters it keeps of
\* a response, and the limit of memory.search.
TopMemories == 3
SnippetLength == 100
SearchLimit == 5
FirstOf(list, n) == SubSeq(list, 1, IF Len(list) < n THEN Len(list) ELSE n)

\* The memory section of app.py (855-860): the query whole, the first
\* characters of the response, each of the first memories.
AppMemoryContext(relevant_memories) ==
    [i \in DOMAIN FirstOf(relevant_memories, TopMemories) |->
        [ query |-> Get(relevant_memories[i], "query", Text("", 0)),
          response |-> Slice(Get(relevant_memories[i], "response", Text("", 0)), SnippetLength) ]]

\* The memory section of agents.py (1279-1284) and of
\* agent_chat_with_memory.py (559-563): query and response whole.
CopyMemoryContext(relevant_memories) ==
    [i \in DOMAIN FirstOf(relevant_memories, TopMemories) |->
        [ query |-> Get(relevant_memories[i], "query", Text("", 0)),
          response |-> Get(relevant_memories[i], "response", Text("", 0)) ]]

\* What get_relevant_memories returns (data_service 159-171): the parsed
\* records, or {"raw_memory": ...} for one that is not JSON.
MemoryDicts ==
    { Put(Put(EmptyDict, "query", Text("q", 20)), "response", Text("r", 80)),
      Put(Put(EmptyDict, "query", Text("q", 250)), "response", Text("r", 80)),
      Put(Put(EmptyDict, "query", Text("q", 20)), "response", Text("r", 250)),
      Put(EmptyDict, "raw_memory", Text("raw", 300)) }
MemoryLists == UNION {[1..n -> MemoryDicts] : n \in 0..SearchLimit}
MemoryCalls ==
    [fn : {"memory_context"}, site : {"app.py", "agents.py"}, relevant_memories : MemoryLists]

\* get_match_with_bets (917-950) and get_team_stats (272-291): the record,
\* or None when nothing is found.
get_match_with_bets(q, found) ==
    IF found /\ get_team_id_by_name(q.home) # NoId /\ get_team_id_by_name(q.away) # NoId
    THEN Some([home_team |-> q.home, away_team |-> q.away, match_date |-> q.date,
               league_name |-> q.league, has_bets |-> FALSE])
    ELSE NoneV
get_team_stats(team_name, found) ==
    IF found /\ get_team_id_by_name(team_name) # NoId
    THEN Some([team_name |-> team_name, team_id |-> get_team_id_by_name(team_name),
               matches_played |-> "n"])
    ELSE NoneV

\* `value or default`, and a call that passes the value on as it is.
PassedOn(value, default) == IF IsSet(value) THEN value.v ELSE [none |-> TRUE]
OrDefault(value, default) == IF IsSet(value) THEN value.v ELSE default

\* The statistics block of app.py (167-198) once it runs: the lookups, the
\* arguments of process_database_insights and what it returns.
AppDatabaseInsights(q, lk) ==
    LET match_data == OrDefault(get_match_with_bets(q, lk.match_found),
                                [home_team |-> q.home, away_team |-> q.away,
                                 match_date |-> q.date, league_name |-> q.league])
        team1_data == get_team_stats(q.home, lk.team1_found)
        team2_data == get_team_stats(q.away, lk.team2_found)
        passed == [ match_data |-> match_data,
                    team1_data |-> OrDefault(team1_data,
                                     [team_name |-> q.home, note |-> "Limited statistics available"]),
                    team2_data |-> OrDefault(team2_data,
                                     [team_name |-> q.away, note |-> "Limited statistics available"]) ]
    IN [ calls |-> << Ev("get_match_with_bets", Some(<<q.home, q.away>>)),
                      Ev("get_team_stats", Some(<<q.home>>)),
                      Ev("get_team_stats", Some(<<q.away>>)),
                      Ev("get_league_standings", Some(<<q.league>>)),
                      Ev("process_database_insights", Some(passed)) >>,
         db_insights |-> IF lk.insights_ok THEN Returns(Completion("db_insights", FALSE))
                         ELSE Raises("exc") ]

StatsLookups ==
    [match_found : BOOLEAN, team1_found : BOOLEAN, team2_found : BOOLEAN, insights_ok : BOOLEAN]
StatsCalls == [fn : {"db_insights"}, q : FnQueries, lk : StatsLookups]

\* The matches table: the sides of a match by team_id and its date as a day
\* number.
Days == 1..3
MatchRow(home_id, away_id, day) ==
    [match_id |-> <<home_id, away_id, day>>, hometeam_id |-> home_id,
     awayteam_id |-> away_id, date |-> day]
MatchRows == {MatchRow(ids[1], ids[2], day) : ids \in {<<"t1", "t2">>, <<"t2", "t1">>}, day \in Days}

\* The difference of two dates without .abs().
SignedDistance(day, closest_to_date) == day - closest_to_date

\* Line 331: (matches_df["date"] - closest_to_date).abs().
Distance(day, closest_to_date) ==
    IF day < closest_to_date THEN closest_to_date - day ELSE day - closest_to_date

\* get_match_by_teams (300-363) with closest_to_date: every value it can
\* return.  Lines 327-328 turn the "YYYY-MM-DD" strings of the table and the
\* given date into timestamps, here day numbers.  sort_values puts a row of the least date_diff first, any of them
\* when several have it; an exception of the query is caught and gives None.
get_match_by_teams(matches, home_team, away_team, closest_to_date, query_ok) ==
    LET home_team_id == get_team_id_by_name(home_team)
        away_team_id == get_team_id_by_name(away_team)
        data == {r \in matches : r.hometeam_id = home_team_id /\ r.awayteam_id = away_team_id}
    IN IF home_team_id = NoId \/ away_team_id = NoId THEN {NoneV}
       ELSE IF ~query_ok \/ data = {} THEN {NoneV}
       ELSE {Some(r) : r \in {x \in data :
                \A y \in data : Distance(x.date, closest_to_date)
                                  <= Distance(y.date, closest_to_date)}}

MatchCalls ==
    [fn : {"get_match_by_teams"}, matches : SUBSET MatchRows, home_team : {"A", "B", "Z"},
     away_team : {"A", "B", "Z"}, closest_to_date : Days, query_ok : BOOLEAN]

\* get_relevant_memories of agent_chat_with_memory.py (332-361): its except
\* clause (343-345) only prints, and line 350 then reads relevant_memories, a
\* name the failed search never bound.
memory_get_relevant_memories(mem, user_id, search_ok) ==
    IF search_ok THEN Returns(SelectSeq(mem, LAMBDA r : r.user_id = user_id))
    ELSE Raises("UnboundLocalError")

\* The two definitions of get_relevant_memories, by the file that holds them.
RelevantMemories(file, mem, user_id, search_ok) ==
    IF file = "data_service.py" THEN Returns(get_relevant_memories(mem, user_id, search_ok))
    ELSE memory_get_relevant_memories(mem, user_id, search_ok)

MemoryStores ==
    {<<>>} \cup {<<[user_id |-> u, query |-> <<"q">>, response |-> Answer]>> : u \in UserIds}
RecallCalls ==
    [fn : {"get_relevant_memories"}, file : {"data_service.py", "agent_chat_with_memory.py"},
     mem : MemoryStores, user_id : UserIds, search_ok : BOOLEAN]

\* Every call the functions are given.
FnCalls ==
    SearchCalls \cup StoreCalls \cup ParseCalls \cup LoadCalls \cup ChatCalls
    \cup MemoryCalls \cup StatsCalls \cup MatchCalls \cup RecallCalls

session == <<entry, connected, ss, blog_analyses, memory, log, offered, rerun, page, requests>>

\* A function is called with arguments of its domain; nothing else runs.
FnInit ==
    /\ entry = "functions"
    /\ connected = FALSE
    /\ ss = Session0(FALSE, FALSE)
    /\ blog_analyses = <<>>
    /\ memory = <<>>
    /\ log = <<>>
    /\ offered = {}
    /\ rerun = FALSE
    /\ page = "none"
    /\ requests = 0
    /\ invoked \in {Some(c) : c \in FnCalls}
    /\ returned = NoneV

\* The call of function fn ends with result.
Finish(fn, result) ==
    /\ invoked.v.fn = fn
    /\ returned = NoneV
    /\ returned' = Some(result)
    /\ UNCHANGED <<session, invoked>>

CallSearchNewsOriginal ==
    Finish("search_news_original",
           search_news_original(invoked.v.topic, invoked.v.results, invoked.v.search_ok))
CallSearchNews ==
    Finish("search_news",
           search_news(invoked.v.topic, invoked.v.results, invoked.v.search_ok))
CallNewsAgentSearchNews ==
    Finish("news_agent.search_news",
           news_agent_search_news(invoked.v.topic, invoked.v.results, invoked.v.search_ok))


\* save_analysis_for_wordpress stores the results for the match.
CallSaveAnalysis ==
    /\ invoked.v.fn = "check_analysis_exists"
    /\ blog_analyses = <<>>
    /\ blog_analyses' = save_analysis_for_wordpress(blog_analyses, MatchInfo(invoked.v.stored),
                                                    invoked.v.results, TRUE)
    /\ UNCHANGED <<entry, connected, ss, memory, log, offered, rerun, page, requests,
                   invoked, returned>>

\* app.py 137-141: the lookup, and the load and parse of what it found.
CallCheckAnalysisExists ==
    /\ invoked.v.fn = "check_analysis_exists"
    /\ blog_analyses # <<>>
    /\ returned = NoneV
    /\ \E pick \in 1..Len(blog_analyses) :
          LET found == AppCheckAnalysisExists(blog_analyses, invoked.v.q,
                                              invoked.v.query_ok, pick)
          IN returned' = Some([ exists |-> found.exists,
                                id |-> found.id,
                                text |-> IF found.exists
                                         THEN parse_wordpress_analysis(
                                                  get_analysis_by_id(blog_analyses, found.id).content)
                                         ELSE <<>> ])
    /\ UNCHANGED <<session, invoked>>

\* parse_wordpress_analysis of the content, and of what that call returned.
CallParseWordpressAnalysis ==
    LET once == parse_wordpress_analysis(invoked.v.html_content)
    IN Finish("parse_wordpress_analysis",
              [once |-> once, twice |-> parse_wordpress_analysis(Soup(once))])

\* The cache-hit branch of generate_analysis_conversational on a loaded record.
CallCacheLoad ==
    /\ invoked.v.fn = "cache_load"
    /\ returned = NoneV
    /\ ss' = AppLoadRecord(ss, invoked.v.q, invoked.v.content)
    /\ returned' = Some(Returns(ParseStoredContent(invoked.v.content)))
    /\ UNCHANGED <<entry, connected, blog_analyses, memory, log, offered, rerun, page,
                   requests, invoked>>

\* A Direct Agent chat question: the messages its call builds.
CallChatWithAnalysis ==
    Finish("chat_with_analysis",
           DirectAgentCall(invoked.v.site, invoked.v.chat_prompt, invoked.v.chat_context,
                           invoked.v.scraped_content, invoked.v.chat_history))

\* The memory section of a Memory-Enhanced chat question.
CallMemoryContext ==
    Finish("memory_context",
           IF invoked.v.site = "app.py" THEN AppMemoryContext(invoked.v.relevant_memories)
           ELSE CopyMemoryContext(invoked.v.relevant_memories))

\* The statistics block of an analysis run.
CallDatabaseInsights ==
    /\ invoked.v.fn = "db_insights"
    /\ returned = NoneV
    /\ log' = log \o AppDatabaseInsights(invoked.v.q, invoked.v.lk).calls
    /\ returned' = Some(AppDatabaseInsights(invoked.v.q, invoked.v.lk).db_insights)
    /\ UNCHANGED <<entry, connected, ss, blog_analyses, memory, offered, rerun, page,
                   requests, invoked>>

\* get_match_by_teams returns one of the values it can return.
CallGetMatchByTeams ==
    /\ invoked.v.fn = "get_match_by_teams"
    /\ \E result \in get_match_by_teams(invoked.v.matches, invoked.v.home_team,
                                         invoked.v.away_team, invoked.v.closest_to_date,
                                         invoked.v.query_ok) :
          Finish("get_match_by_teams", result)

CallGetRelevantMemories ==
    /\ invoked.v.fn = "get_relevant_memories"
    /\ Finish("get_relevant_memories",
              RelevantMemories(invoked.v.file, invoked.v.mem, invoked.v.user_id,
                               invoked.v.search_ok))

FnNext ==
    \/ CallGetRelevantMemories
    \/ CallGetMatchByTeams
    \/ CallChatWithAnalysis
    \/ CallMemoryContext
    \/ CallDatabaseInsights
    \/ CallSearchNewsOriginal
    \/ CallSearchNews
    \/ CallNewsAgentSearchNews
    \/ CallSaveAnalysis
    \/ CallCheckAnalysisExists
    \/ CallParseWordpressAnalysis
    \/ CallCacheLoad

FnSpec == FnInit /\ [][FnNext]_vars

\* ------------------------------------------------------------- properties
Ops(calls) == {calls[i].op : i \in 1..Len(calls)}
Loaded(calls) ==
    \E i \in 1..Len(calls) : calls[i].op = "get_analysis_by_id" /\ IsSet(calls[i].arg)

\* The pipeline stages: process_database_insights, the four completion calls
\* and the scrape of process_football_news, combine_analysis_with_database.
PipelineOps == {"process_database_insights", "search", "synthesize", "summarize",
                "elaborate", "search_news", "combine_analysis_with_database"}

\* C1: when check_analysis_exists finds the match and get_analysis_by_id returns
\* its record, the request invokes none of the pipeline stages.
CacheHitSkipsPipeline ==
    Loaded(log) => Ops(log) \cap PipelineOps = {}

\* A request of app.py that was served from a stored record.
CacheHitServed ==
    /\ entry = "app"
    /\ Loaded(log)
    /\ IsSet(ss.results)
    /\ ss.results.v["source_type"] = <<"db">>

\* C2: after a request of app.py that was served by loading a stored record,
\* chat_context is set and holds the loaded analysis text.
LoadedRecordInChatContext ==
    (entry = "app" /\ Loaded(log) /\ IsSet(ss.results)) =>
        /\ IsSet(ss.chat_context)
        /\ Contains(ss.chat_context.v, ss.results.v["combined_analysis"])

\* The calls that hand a user question to the conversational responder.
ResponderOps == {"chat_with_analysis", "chat_bot.chat"}
\* The event that completes an analysis request: the chat context of a run,
\* or the record a cache load returned.
Completes(e) ==
    \/ e.op = "chat_context"
    \/ e.op = "get_analysis_by_id" /\ IsSet(e.arg)

Before(calls, first, then) ==
    \A i, j \in 1..Len(calls) :
        (calls[i].op \in first /\ calls[j].op \in then) => i < j

LookupOps == {"check_analysis_exists"}
StatsOps == {"get_match_with_bets", "get_match_by_teams", "get_team_stats",
             "get_head_to_head", "get_league_standings"}
StoreOps == {"save_analysis_for_wordpress"}
BuildOps == {"chat_context"}

SummarizeFailed(calls) ==
    /\ "summarize" \in Ops(calls)
    /\ "elaborate" \notin Ops(calls)
    /\ "st.error" \in Ops(calls)

\* C5: when the summarize call fails, the reported failure names the stage and
\* the session's results keep raw_news and synthesized_news.
SummarizeFailureKeepsPartialResult ==
    SummarizeFailed(log) =>
        /\ \E i \in 1..Len(log) :
              log[i].op = "st.error" /\ Contains(log[i].arg.v, <<"summarize">>)
        /\ IsSet(ss.results)
        /\ {"raw_news", "synthesized_news"} \subseteq DOMAIN ss.results.v

\* The chat_context constructions of a log, each with the calls before it.
Builds(calls) == {i \in 1..Len(calls) : calls[i].op = "chat_context"}
OpsBefore(calls, i) == Ops(SubSeq(calls, 1, i))

\* C6: results produced by a run hold combined_analysis exactly when the run
\* produced both the news analysis and db_insights.
CombinedIffBothProduced ==
    \A i \in Builds(log) :
        ~Loaded(SubSeq(log, 1, i)) =>
            ("combined_analysis" \in DOMAIN log[i].results
                <=> /\ "search_news" \in OpsBefore(log, i)
                    /\ "process_database_insights" \in OpsBefore(log, i))

\* The analysis text the priority combined_analysis > enhanced_analysis >
\* db_insights > initial_analysis selects.
PriorityKeys == <<"combined_analysis", "enhanced_analysis", "db_insights", "initial_analysis">>
HasPriorityKey(results) == \E k \in 1..Len(PriorityKeys) : PriorityKeys[k] \in DOMAIN results
PriorityText(results) ==
    LET k == CHOOSE n \in 1..Len(PriorityKeys) :
                /\ PriorityKeys[n] \in DOMAIN results
                /\ \A l \in 1..(n - 1) : PriorityKeys[l] \notin DOMAIN results
    IN results[PriorityKeys[k]]

\* C7: every chat context built by app.py or setup_chat_with_context carries,
\* in its ANALYSIS section, the first present of the four keys.
ContextFollowsPriority ==
    entry \in {"app", "copy"} =>
        \A i \in Builds(log) :
            HasPriorityKey(log[i].results) =>
                Contains(log[i].arg.v, <<"ANALYSIS:">> \o PriorityText(log[i].results))

\* C8: a chat context has a DATABASE INSIGHTS section exactly when db_insights
\* exists and differs from the text chosen for the ANALYSIS section.
DatabaseSectionIffDistinct ==
    entry \in {"app", "copy"} =>
        \A i \in Builds(log) :
            Contains(log[i].arg.v, <<"DATABASE INSIGHTS:">>)
                <=> /\ "db_insights" \in DOMAIN log[i].results
                    /\ log[i].results["db_insights"] # PriorityText(log[i].results)

\* C9: no memory record is written for the user "default_user".
NoMemoryForDefaultUser ==
    \A i \in 1..Len(memory) : memory[i].user_id # "default_user"

\* What "Select Different Match" leaves in st.session_state.
NoAnalysis(s) ==
    /\ ~s.in_analysis_mode
    /\ s.results = NoneV
    /\ s.match_info = NoneV
    /\ s.match_to_analyze = NoneV
    /\ s.chat_context = NoneV
    /\ ~s.start_analysis
    /\ ~s.analysis_in_progress
    /\ ~s.analysis_triggered
    /\ s.chat_history = <<>>

\* C10: immediately after "Select Different Match" the session is back in
\* no-analysis, its flags cleared and its chat history empty.
SelectDifferentMatchResets ==
    [][AppSelectDifferentMatch => NoAnalysis(ss')]_vars

\* The session right after a reset of an analysis that had been shown.
AfterSelectDifferentMatch ==
    /\ entry = "app"
    /\ rerun
    /\ NoAnalysis(ss)
    /\ requests > 0

\* One sequence is the beginning of another.
IsPrefix(a, b) == Len(a) <= Len(b) /\ SubSeq(b, 1, Len(a)) = a

\* The steps of app.py that clear the chat: a run whose execution block
\* starts an analysis, "Select Different Match", "Clear Chat History".
ClearsChat == AppExecFires(ss) \/ AppSelectDifferentMatch \/ AppClearChat

\* C11: in app.py every step that does not clear the chat leaves the earlier
\* turns in place and in order, adding turns only at the end; a step that
\* clears it leaves at most the message of the analysis it started, and no
\* question or answer of the analysis before.
ChatHistoryAppendOnly ==
    [][entry = "app" =>
          IF ClearsChat
          THEN /\ Len(ss'.chat_history) <= 1
               /\ \A i \in 1..Len(ss'.chat_history) :
                     ss'.chat_history[i].role = "assistant"
          ELSE IsPrefix(ss.chat_history, ss'.chat_history)]_vars

\* A conversation of app.py: the analysis message, a question, its answer.
ConversationHeld ==
    /\ entry = "app"
    /\ Len(ss.chat_history) >= 3
    /\ ss.chat_history[2].role = "user"

\* A call of fn has returned or raised.
Finished(fns) == IsSet(invoked) /\ invoked.v.fn \in fns /\ IsSet(returned)

\* C12: when the search backend finds nothing, each of the three search
\* functions returns, without raising, a sentinel that says "No news found
\* for" and names the topic.
EmptySearchGivesSentinel ==
    (Finished(SearchFns) /\ invoked.v.search_ok /\ invoked.v.results = <<>>) =>
        /\ ~returned.v.raised
        /\ Contains(returned.v.value, <<"No news found for">>)
        /\ Contains(returned.v.value, <<invoked.v.topic>>)

\* C13: an analysis stored for a match and then looked up for the same match
\* is found, and the text loaded from it is the canonical analysis text of the
\* results that were stored.
StoreLoadRoundTrip ==
    /\ Finished({"check_analysis_exists"})
    /\ invoked.v.stored = invoked.v.q
    /\ invoked.v.query_ok
    => /\ returned.v.exists
       /\ returned.v.text = main_analysis(invoked.v.results)

\* C14: parse_wordpress_analysis returns a text without markup as it is, and
\* parsing what it returned returns the same again.
ParseIdempotentAndPlainNoOp ==
    Finished({"parse_wordpress_analysis"})
    => /\ ~invoked.v.markup => returned.v.once = invoked.v.text
       /\ returned.v.twice = returned.v.once

\* C15: a record whose content cannot be parsed is loaded without an
\* exception: the parse returns the content as it is, and the cache-hit branch
\* ends with the results holding that content and the analysis no longer in
\* progress.
UnparsableContentLoadedUnchanged ==
    Finished({"cache_load"}) /\ ~IsSet(invoked.v.content)
    => /\ ~returned.v.raised
       /\ returned.v.value = invoked.v.content
       /\ IsSet(ss.results)
       /\ ss.results.v["combined_analysis"] = invoked.v.content
       /\ ss.results.v["original_html"] = invoked.v.content
       /\ ss.analysis_in_progress = FALSE
UnparsableRecordLoaded ==
    /\ Finished({"cache_load"})
    /\ ~IsSet(invoked.v.content)
    /\ IsSet(ss.results)
    /\ ss.chat_history # <<>>

\* C16: the lookup gives the same answer whatever league the query names, and
\* it finds a record only of the same home team, away team and date.
LookupIgnoresLeague ==
    Finished({"check_analysis_exists"})
    => /\ \A league \in {"L1", "L2"} :
            LET found == AppCheckAnalysisExists(blog_analyses,
                                                [invoked.v.q EXCEPT !.league = league],
                                                invoked.v.query_ok, 1)
            IN found.exists = returned.v.exists /\ found.id = returned.v.id
       /\ returned.v.exists =>
            /\ get_team_id_by_name(invoked.v.stored.home) = get_team_id_by_name(invoked.v.q.home)
            /\ get_team_id_by_name(invoked.v.stored.away) = get_team_id_by_name(invoked.v.q.away)
            /\ get_team_id_by_name(invoked.v.q.home) # NoId
            /\ get_team_id_by_name(invoked.v.q.away) # NoId
            /\ invoked.v.stored.date = invoked.v.q.date
FoundUnderOtherLeague ==
    /\ Finished({"check_analysis_exists"})
    /\ returned.v.exists
    /\ invoked.v.stored.league # invoked.v.q.league

\* C17: the messages of a chat question are one system message that holds the
\* context, then the turns held before the question in their order, then the
\* question as the only message added after them.
ChatMessagesSent ==
    Finished({"chat_with_analysis"})
    => /\ ~returned.v.raised
       /\ LET messages == returned.v.value
              last == Len(messages)
          IN /\ last = Len(invoked.v.chat_history) + 2
             /\ messages[1].role = "system"
             /\ Contains(messages[1].content, invoked.v.chat_context)
             /\ SubSeq(messages, 2, last - 1) = invoked.v.chat_history
             /\ messages[last] = Turn("user", invoked.v.chat_prompt)

\* C18: the memory section holds at most the first three memories, and of
\* each no more than 100 characters of the query and of the response.
MemorySectionBounded ==
    Finished({"memory_context"})
    => /\ Len(returned.v) <= 3
       /\ \A i \in DOMAIN returned.v :
            /\ returned.v[i].query.len <= 100
            /\ returned.v[i].response.len <= 100

\* C20: whatever the statistics lookups find, process_database_insights is
\* called; a team without statistics is passed as its name and a note, a match
\* without a record as its teams, date and league; and when the completion
\* answers, db_insights is what it returned.
MissingStatsReplaced ==
    Finished({"db_insights"})
    => LET q == invoked.v.q
           call == log[Len(log)]
       IN /\ call.op = "process_database_insights"
          /\ ~IsSet(get_team_stats(q.home, invoked.v.lk.team1_found))
               => call.arg.v.team1_data = [team_name |-> q.home,
                                           note |-> "Limited statistics available"]
          /\ ~IsSet(get_team_stats(q.away, invoked.v.lk.team2_found))
               => call.arg.v.team2_data = [team_name |-> q.away,
                                           note |-> "Limited statistics available"]
          /\ ~IsSet(get_match_with_bets(q, invoked.v.lk.match_found))
               => call.arg.v.match_data = [home_team |-> q.home, away_team |-> q.away,
                                           match_date |-> q.date, league_name |-> q.league]
          /\ invoked.v.lk.insights_ok
               => returned.v = Returns(Completion("db_insights", FALSE))
InsightsWithoutStatistics ==
    /\ Finished({"db_insights"})
    /\ ~invoked.v.lk.team1_found
    /\ ~invoked.v.lk.match_found
    /\ log # <<>>
    /\ ~returned.v.raised

\* A chat question asked in app.py of a completion service that answers
\* (answer_ok) or fails; the calls the step adds to the log.
AppAskWith(answer_ok) ==
    /\ Asked(log) < MaxTurns
    /\ \E c \in Settings, question \in Questions :
         AppEvent("chat", UrlQuery, c, question, answer_ok)
NewCalls == SubSeq(log', Len(log) + 1, Len(log'))

\* C19: a chat question of app.py that reaches the responder is answered in
\* the same run without an exception: the responder is called once, the chat
\* history gains the question and one assistant turn, and that turn is the
\* answer of the service when the service answers and an error text when it
\* fails.
ChatFailureSurfacedOnce ==
    [][ \A answer_ok \in BOOLEAN :
          (AppAskWith(answer_ok) /\ \E i \in DOMAIN NewCalls : NewCalls[i].op \in ResponderOps)
          => LET history == ss'.chat_history
                 last == Len(history)
             IN /\ page' = "rendered"
                /\ Cardinality({i \in DOMAIN NewCalls : NewCalls[i].op \in ResponderOps}) = 1
                /\ last = Len(ss.chat_history) + 2
                /\ history[last - 1].role = "user"
                /\ history[last].role = "assistant"
                /\ (history[last].content = Answer) <=> answer_ok ]_vars

\* A run of app.py whose execution block starts the analysis and meets the
\* outcomes o; a chat question asked under the settings c.
AppRunWith(o) ==
    /\ AppExecFires(ss)
    /\ \E look \in LookupsNow, u \in UrlNow :
         AppScript("none", UrlQuery, Settings0, <<>>, TRUE, look, o, u[1], u[2])
AppAskUnder(c, answer_ok) ==
    /\ Asked(log) < MaxTurns
    /\ \E question \in Questions : AppEvent("chat", UrlQuery, c, question, answer_ok)

\* C21: without a storage client an analysis request makes no cache lookup,
\* no statistics lookup and no store, and with the services answering it runs
\* the news pipeline and ends with results and chat context set; and a chat
\* question asked after memory initialization failed is handed to the
\* responder with the analysis context and gets the answer of the service.
BackendUnavailableDisablesFeature ==
    [][ /\ \A o \in Outcomes :
              (entry = "app" /\ ~connected /\ AppRunWith(o))
              => /\ Ops(log') \cap (LookupOps \cup StatsOps \cup StoreOps) = {}
                 /\ (o.use_news /\ o.fail = "none")
                      => /\ "elaborate" \in Ops(log')
                         /\ IsSet(ss'.results)
                         /\ IsSet(ss'.chat_context)
                         /\ ~ss'.analysis_in_progress
        /\ \A c \in Settings, answer_ok \in BOOLEAN :
              (/\ entry = "app"
               /\ c.enable_memory /\ ~c.init_ok
               /\ IsSet(ss.chat_context)
               /\ AppAskUnder(c, answer_ok))
              => /\ "chat_with_analysis" \in Ops(NewCalls)
                 /\ answer_ok => ss'.chat_history[Len(ss'.chat_history)].content = Answer
      ]_vars

\* The calls a step adds to the log; the calls only an analysis run makes.
StepCalls == IF IsPrefix(log, log') THEN NewCalls ELSE log'
RunOps ==
    PipelineOps \cup LookupOps \cup StatsOps \cup StoreOps \cup BuildOps
    \cup {"get_analysis_by_id", "st.error"}

\* C22: in app.py an analysis runs only in a step that found start_analysis
\* set and analysis_in_progress clear, the step leaves start_analysis clear,
\* and start_analysis is set only by a step that ends in a rerun: a trigger
\* starts one run and no run starts without a new trigger.
OneRunPerTrigger ==
    [][ entry = "app"
        => /\ (Ops(StepCalls) \cap RunOps # {})
                => ss.start_analysis /\ ~ss.analysis_in_progress
           /\ AppExecFires(ss) => ~ss'.start_analysis
           /\ (ss'.start_analysis /\ ~ss.start_analysis) => rerun'
      ]_vars
SecondTriggerRan ==
    /\ entry = "app"
    /\ requests = 2
    /\ ~ss.start_analysis
    /\ ~ss.analysis_in_progress
    /\ IsSet(ss.results)

\* The positions of the calls of one stage in the log.
CallsOf(calls, op) == {i \in 1..Len(calls) : calls[i].op = op}

\* C23: in the log of a request each of the four completion calls appears at
\* most once; a stage appears only after the stage before it and is given
\* that stage's output (the last one the initial analysis and the match); when
\* the four are not all there the run failed and set no results; and in app.py
\* the combine call comes after elaborate and after db_insights was produced.
StagesOnceInOrder ==
    /\ \A k \in 1..Len(NewsStages) :
          /\ Cardinality(CallsOf(log, NewsStages[k])) <= 1
          /\ k > 1 => \A i \in CallsOf(log, NewsStages[k]) :
                         \E j \in CallsOf(log, NewsStages[k - 1]) : j < i
    /\ \A i \in CallsOf(log, "synthesize") : Contains(log[i].arg.v, <<"raw">>)
    /\ \A i \in CallsOf(log, "summarize") : Contains(log[i].arg.v, <<"syn">>)
    /\ \A i \in CallsOf(log, "elaborate") :
          /\ Contains(log[i].arg.v, <<"INITIAL ANALYSIS:", "ini">>)
          /\ \E j \in CallsOf(log, "search") :
                Contains(log[i].arg.v, <<"MATCH:">> \o SubSeq(log[j].arg.v, 2, Len(log[j].arg.v)))
    /\ (entry = "app" /\ "search" \in Ops(log) /\ "elaborate" \notin Ops(log))
          => /\ "st.error" \in Ops(log)
             /\ ~IsSet(ss.results)
             /\ Ops(log) \cap (StoreOps \cup BuildOps \cup {"search_news"}) = {}
    /\ entry = "app"
          => \A i \in CallsOf(log, "combine_analysis_with_database") :
                /\ \E j \in CallsOf(log, "elaborate") : j < i
                /\ \E j \in CallsOf(log, "process_database_insights") : j < i
StageFailedInRun ==
    /\ entry = "app"
    /\ "synthesize" \in Ops(log)
    /\ "summarize" \notin Ops(log)
    /\ "st.error" \in Ops(log)

BettingInsightsAreBetRecords ==
    (IsSet(ss.results) /\ "betting_insights" \in DOMAIN ss.results.v)
    => /\ DOMAIN ss.results.v["betting_insights"] \cap {"section", "recommendations"} = {}
       /\ ~BettingTabRaises(ss.results.v)

\* The matches of the table with the queried home team as home side and the
\* queried away team as away side.
MatchesOfQuery ==
    {r \in invoked.v.matches :
        /\ get_team_id_by_name(invoked.v.home_team) # NoId
        /\ get_team_id_by_name(invoked.v.away_team) # NoId
        /\ r.hometeam_id = get_team_id_by_name(invoked.v.home_team)
        /\ r.awayteam_id = get_team_id_by_name(invoked.v.away_team)}

\* C26: when the query is answered, get_match_by_teams returns None if a team
\* name has no identifier or the table has no match of these sides, and
\* otherwise a match of these sides than which none is nearer to the date.
ClosestMatchReturned ==
    (Finished({"get_match_by_teams"}) /\ invoked.v.query_ok)
    => IF MatchesOfQuery = {} THEN returned.v = NoneV
       ELSE /\ IsSet(returned.v)
            /\ returned.v.v \in MatchesOfQuery
            /\ \A r \in MatchesOfQuery :
                  (IF returned.v.v.date < invoked.v.closest_to_date
                   THEN invoked.v.closest_to_date - returned.v.v.date
                   ELSE returned.v.v.date - invoked.v.closest_to_date)
                  <= (IF r.date < invoked.v.closest_to_date
                      THEN invoked.v.closest_to_date - r.date
                      ELSE r.date - invoked.v.closest_to_date)
NearerMatchChosen ==
    /\ Finished({"get_match_by_teams"})
    /\ IsSet(returned.v)
    /\ \E r \in MatchesOfQuery : r.date < returned.v.v.date
    /\ \E r \in invoked.v.matches : r \notin MatchesOfQuery

SelectionAlwaysOffered ==
    (entry = "app" /\ page # "none" /\ ~rerun /\ ss.in_analysis_mode
        /\ ~ss.analysis_in_progress)
    => (page = "rendered" /\ "select_different" \in offered)

FailedSearchGivesNoMemories ==
    (Finished({"get_relevant_memories"}) /\ ~invoked.v.search_ok)
    => (~returned.v.raised /\ returned.v.value = <<>>)

====
